---- MODULE Spec2Model ----
(***************************************************************************)
(* fast-rl-rewards: the execution-reward pipeline.                         *)
(*                                                                         *)
(* Texts (completions, tests, entry points, programs, the child's stdout)  *)
(* are TLA+ strings, taken apart with Len, SubSeq and \o as the Rust code  *)
(* takes them apart with its regular expressions and str methods.          *)
(***************************************************************************)
EXTENDS Integers, Sequences, FiniteSets, TLC

(***************************************************************************)
(* Text helpers: what str::trim, str::contains, str::split and the regex   *)
(* classes \s and \d do on ASCII text.                                     *)
(***************************************************************************)
CharAt(s, i) == SubSeq(s, i, i)

IsWs(c) == c \in {" ", "\t", "\n", "\r", "\f"}

IsDigit(c) == c \in {"0", "1", "2", "3", "4", "5", "6", "7", "8", "9"}

MinOf(S) == CHOOSE x \in S : \A y \in S : x <= y

MaxOf(S) == CHOOSE x \in S : \A y \in S : y <= x

\* p occurs in s starting at index i
MatchAt(s, p, i) == /\ i >= 1
                    /\ i + Len(p) - 1 <= Len(s)
                    /\ SubSeq(s, i, i + Len(p) - 1) = p

\* index of the first occurrence of p in s at or after from, 0 if none
Find(s, p, from) ==
    LET hits == {i \in from..(Len(s) - Len(p) + 1) : MatchAt(s, p, i)}
    IN  IF hits = {} THEN 0 ELSE MinOf(hits)

Contains(s, p) == Find(s, p, 1) # 0

\* index of the last occurrence of p in s, 0 if none
FindLast(s, p) ==
    LET hits == {i \in 1..(Len(s) - Len(p) + 1) : MatchAt(s, p, i)}
    IN  IF hits = {} THEN 0 ELSE MaxOf(hits)

\* index of the first non-whitespace character at or after i, Len(s)+1 if none
SkipWs(s, i) ==
    LET stops == {j \in i..Len(s) : ~IsWs(CharAt(s, j))}
    IN  IF stops = {} THEN Len(s) + 1 ELSE MinOf(stops)

\* index where the whitespace run that ends just before i begins
WsRunStart(s, i) ==
    LET stops == {j \in 1..(i - 1) : ~IsWs(CharAt(s, j))}
    IN  IF stops = {} THEN 1 ELSE MaxOf(stops) + 1

TrimStart(s) == SubSeq(s, SkipWs(s, 1), Len(s))

TrimEnd(s) == SubSeq(s, 1, WsRunStart(s, Len(s) + 1) - 1)

\* a variant of Trim that removes one whitespace character at each end at most
TrimOne(s) ==
    LET a == IF s # "" /\ IsWs(CharAt(s, 1)) THEN 2 ELSE 1
        b == IF Len(s) >= a /\ IsWs(CharAt(s, Len(s))) THEN Len(s) - 1 ELSE Len(s)
    IN  SubSeq(s, a, b)

Trim(s) == TrimEnd(TrimStart(s))

UpperAlphabet == "ABCDEFGHIJKLMNOPQRSTUVWXYZ"

LowerAlphabet == "abcdefghijklmnopqrstuvwxyz"

LowerChar(c) ==
    LET k == Find(UpperAlphabet, c, 1)
    IN  IF k = 0 THEN c ELSE CharAt(LowerAlphabet, k)

RECURSIVE Lower(_)
Lower(s) == IF s = "" THEN "" ELSE LowerChar(Head(s)) \o Lower(Tail(s))

\* str::split('\n'): the pieces between the newlines, in order
RECURSIVE SplitLines(_)
SplitLines(s) ==
    LET k == Find(s, "\n", 1)
    IN  IF k = 0 THEN <<s>>
        ELSE <<SubSeq(s, 1, k - 1)>> \o SplitLines(SubSeq(s, k + 1, Len(s)))

\* [String]::join("\n")
RECURSIVE JoinLines(_)
JoinLines(ls) ==
    IF ls = <<>> THEN ""
    ELSE IF Len(ls) = 1 THEN ls[1]
    ELSE ls[1] \o "\n" \o JoinLines(Tail(ls))

(***************************************************************************)
(* extraction.rs: extract_code_from_completion.                            *)
(*                                                                         *)
(* A string literal of this module cannot hold the backquote character, so *)
(* the texts write ~ for it: the patterns use the backquote only as a      *)
(* literal, and no pattern or text uses ~ for anything else.               *)
(***************************************************************************)
Fence == "~~~"

FencePython == Fence \o "python"

NlFence == "\n" \o Fence

\* ANSWER_PATTERN (?is)<answer>(.*?)</answer>: the leftmost <answer> and the
\* first </answer> after it; <<start, end>> of the captured region, or <<0, 0>>
AnswerCapture(completion) ==
    LET low == Lower(completion)
        p   == Find(low, "<answer>", 1)
        q   == IF p = 0 THEN 0 ELSE Find(low, "</answer>", p + 8)
    IN  IF q = 0 THEN <<0, 0>> ELSE <<p + 8, q - 1>>

\* Regex::replace of ^<fence>\s*\n by "": \s* is greedy, so the match ends at
\* the last newline of the whitespace run that follows the fence
StripFenceStart(code, fence) ==
    IF ~MatchAt(code, fence, 1) THEN code
    ELSE LET a   == Len(fence) + 1
             e   == SkipWs(code, a)
             nls == {j \in a..(e - 1) : CharAt(code, j) = "\n"}
         IN  IF nls = {} THEN code ELSE SubSeq(code, MaxOf(nls) + 1, Len(code))

\* Regex::replace of \n<fence>\s*$ by "": the leftmost one with only whitespace after it
StripFenceEnd(code) ==
    LET hits == {j \in 1..Len(code) :
                    MatchAt(code, NlFence, j) /\ SkipWs(code, j + 4) = Len(code) + 1}
    IN  IF hits = {} THEN code ELSE SubSeq(code, 1, MinOf(hits) - 1)

\* CODE_BLOCK_PATTERN (?s)<fence>python\s*\n(.*?)\n<fence>, tried at fence position p:
\* the newline that ends \s*\n (the last one that lets the rest match), or 0
CodeBlockNewline(completion, p) ==
    LET a   == p + Len(FencePython)
        e   == SkipWs(completion, a)
        oks == {j \in a..(e - 1) : /\ CharAt(completion, j) = "\n"
                                   /\ Find(completion, NlFence, j + 1) # 0}
    IN  IF oks = {} THEN 0 ELSE MaxOf(oks)

\* <<start, end>> of the region CODE_BLOCK_PATTERN captures, or <<0, 0>>
CodeBlockCapture(completion) ==
    LET ps == {p \in 1..Len(completion) :
                  /\ MatchAt(completion, FencePython, p)
                  /\ CodeBlockNewline(completion, p) # 0}
    IN  IF ps = {} THEN <<0, 0>>
        ELSE LET j == CodeBlockNewline(completion, MinOf(ps))
             IN  <<j + 1, Find(completion, NlFence, j + 1) - 1>>

\* a variant of extract_code_from_completion that looks for a python code
\* block before it looks for the answer tags
extract_code_block_first(completion) ==
    LET ans == AnswerCapture(completion)
        blk == CodeBlockCapture(completion)
    IN  IF blk # <<0, 0>>
        THEN Trim(SubSeq(completion, blk[1], blk[2]))
        ELSE IF ans # <<0, 0>>
        THEN StripFenceEnd(
                 StripFenceStart(
                     StripFenceStart(Trim(SubSeq(completion, ans[1], ans[2])),
                                     FencePython),
                     Fence))
        ELSE Trim(completion)

extract_code_from_completion(completion) ==
    LET ans == AnswerCapture(completion)
        blk == CodeBlockCapture(completion)
    IN  IF ans # <<0, 0>>
        THEN StripFenceEnd(
                 StripFenceStart(
                     StripFenceStart(Trim(SubSeq(completion, ans[1], ans[2])),
                                     FencePython),
                     Fence))
        ELSE IF blk # <<0, 0>>
        THEN Trim(SubSeq(completion, blk[1], blk[2]))
        ELSE Trim(completion)

(***************************************************************************)
(* test_wrapper.rs: wrap_tests_for_complete_execution.                     *)
(***************************************************************************)
\* ASSERT_PATTERN (\s*)(assert\s+.+) matches with "assert" at index a of s:
\* at least one whitespace character after it, then a character that is not
\* a newline
AssertAt(s, a) ==
    /\ MatchAt(s, "assert", a)
    /\ LET e == SkipWs(s, a + 6)
       IN  \E j \in (a + 7)..e : j <= Len(s) /\ CharAt(s, j) # "\n"

\* index of "assert" in the leftmost match of ASSERT_PATTERN, 0 if none
AssertPos(s) ==
    LET hits == {a \in 1..Len(s) : AssertAt(s, a)}
    IN  IF hits = {} THEN 0 ELSE MinOf(hits)

\* ASSERT_PATTERN.find_iter(test_code).count(): the matches do not overlap,
\* each runs to the end of its line
RECURSIVE AssertCount(_)
AssertCount(s) ==
    LET a == AssertPos(s)
    IN  IF a = 0 THEN 0
        ELSE LET nl == Find(s, "\n", SkipWs(s, a + 6))
             IN  IF nl = 0 THEN 1 ELSE 1 + AssertCount(SubSeq(s, nl, Len(s)))

\* CHECK_DEF_PATTERN def\s+check\s*\( matches somewhere in the line
IsCheckDef(line) ==
    \E d \in 1..Len(line) :
        /\ MatchAt(line, "def", d)
        /\ LET c == SkipWs(line, d + 3)
           IN  /\ c > d + 3
               /\ MatchAt(line, "check", c)
               /\ CharAt(line, SkipWs(line, c + 5)) = "("

\* INDENT_PATTERN ^(\s*): the leading whitespace of the line
IndentOf(line) == SubSeq(line, 1, SkipWs(line, 1) - 1)

\* the five lines that replace an assertion line inside check
GuardedBlock(line) ==
    LET a         == AssertPos(line)
        indent    == SubSeq(line, WsRunStart(line, a), a - 1)
        assertion == SubSeq(line, a, Len(line))
    IN  << indent \o "try:",
           indent \o "    " \o assertion,
           indent \o "    _results.append(True)",
           indent \o "except:",
           indent \o "    _results.append(False)" >>

\* function_ended of the line loop
FunctionEnded(line, check_function_indent) ==
    \/ Trim(line) = ""
    \/ /\ Trim(line) # ""
       /\ ~MatchAt(line, check_function_indent \o " ", 1)
       /\ ~MatchAt(line, check_function_indent \o "\t", 1)

ReturnResults(check_function_indent) ==
    << check_function_indent \o "    return _results", "" >>

\* the for loop over the lines and the closing of a function that never ended
RECURSIVE WrapLoop(_, _, _)
WrapLoop(lines, in_check_function, check_function_indent) ==
    IF lines = <<>>
    THEN IF in_check_function THEN ReturnResults(check_function_indent) ELSE <<>>
    ELSE LET line == Head(lines)
             rest == Tail(lines)
         IN  IF IsCheckDef(line)
             THEN << line, IndentOf(line) \o "    _results = []" >>
                      \o WrapLoop(rest, TRUE, IndentOf(line))
             ELSE IF AssertPos(line) # 0 /\ in_check_function
             THEN GuardedBlock(line)
                      \o WrapLoop(rest, TRUE, check_function_indent)
             ELSE IF in_check_function /\ FunctionEnded(line, check_function_indent)
             THEN ReturnResults(check_function_indent)
                      \o (IF Trim(line) # "" THEN <<line>> ELSE <<>>)
                      \o WrapLoop(rest, FALSE, check_function_indent)
             ELSE <<line>> \o WrapLoop(rest, in_check_function, check_function_indent)

\* the execution and reporting code appended after the loop
HarnessDriver(entry_point) ==
    << "_test_results = check(" \o entry_point \o ")",
       "",
       "# Report test results",
       "_passed = sum(_test_results)",
       "_total = len(_test_results)",
       "print(f\"TESTS_PASSED:{_passed}/{_total}\")",
       "exit(0 if _passed == _total else 1)" >>

wrap_tests_for_complete_execution(test_code, entry_point) ==
    IF AssertPos(test_code) = 0
    THEN test_code
    ELSE JoinLines(WrapLoop(SplitLines(test_code), FALSE, "")
                       \o HarnessDriver(entry_point))

(***************************************************************************)
(* evaluator.rs: has_valid_format and evaluate_response_format.            *)
(***************************************************************************)
\* a pattern (?is)<tag>.*?</tag> matches somewhere in text: the leftmost
\* opening tag has a closing tag behind it, whatever the case of the letters
TagPatternMatches(text, open, close) ==
    LET low == Lower(text)
        p   == Find(low, open, 1)
    IN  p # 0 /\ Find(low, close, p + Len(open)) # 0

\* a variant of has_valid_format with one pattern for the think block
\* followed by the answer block
has_valid_format_in_order(text) ==
    LET low == Lower(text)
        p   == Find(low, "<think>", 1)
        q   == IF p = 0 THEN 0 ELSE Find(low, "</think>", p + 7)
        a   == IF q = 0 THEN 0 ELSE Find(low, "<answer>", q + 8)
    IN  a # 0 /\ Find(low, "</answer>", a + 8) # 0

has_valid_format(text) ==
    /\ TagPatternMatches(text, "<think>", "</think>")
    /\ TagPatternMatches(text, "<answer>", "</answer>")

\* the rewards 1.0 and 0.0 are written 1 and 0
evaluate_response_format(cs) ==
    [i \in 1..Len(cs) |-> IF has_valid_format(cs[i]) THEN 1 ELSE 0]

(***************************************************************************)
(* evaluator.rs: the pure steps of evaluate_single_execution.              *)
(***************************************************************************)
TypingPrelude == "from typing import List, Optional, Dict, Set, Tuple, Any\n\n"

\* a variant of TestMissing that knows the empty test only
TestMissingEmptyOnly(test) == test = ""

\* the first early return: no test to run
TestMissing(test) == test = "" \/ test = "null"

\* the second early return: nothing was extracted
CodeMissing(code) == Trim(code) = ""

\* a variant of MethodName that takes the component before the first '.'
MethodNameFirst(entry_point) ==
    IF Contains(entry_point, ".")
    THEN SubSeq(entry_point, 1, Find(entry_point, ".", 1) - 1)
    ELSE entry_point

\* "Solution().twoSum" -> "twoSum", "add" -> "add"
MethodName(entry_point) ==
    IF Contains(entry_point, ".")
    THEN SubSeq(entry_point, FindLast(entry_point, ".") + 1, Len(entry_point))
    ELSE entry_point

\* the entry-point validation: TRUE when evaluation goes on to the sandbox
EntryPointValid(code_with_imports, entry_point) ==
    IF entry_point # "" /\ entry_point # "null"
    THEN /\ Contains(code_with_imports, "def " \o MethodName(entry_point))
         /\ ~(/\ Contains(entry_point, "Solution().")
              /\ ~Contains(code_with_imports, "class Solution"))
    ELSE TRUE

FullCode(code_with_imports, wrapped_tests) ==
    code_with_imports \o "\n\n" \o wrapped_tests

(***************************************************************************)
(* u64 arithmetic.  A u64 is written as its four 16-bit limbs, the least   *)
(* significant first, so that the whole range of memory_limit_mb and the   *)
(* product computed from it are represented exactly.                       *)
(***************************************************************************)
\* the base of a limb
LimbBase == 65536

\* the u64 of a number below LimbBase * LimbBase
U64(n) == << n % LimbBase, n \div LimbBase, 0, 0 >>

\* u64::MAX
U64Max == << LimbBase - 1, LimbBase - 1, LimbBase - 1, LimbBase - 1 >>

\* the limb of a at position k, 0 beyond its length
Limb(a, k) == IF k <= Len(a) THEN a[k] ELSE 0

\* a >= b, compared from limb k downwards
RECURSIVE GeFrom(_, _, _)
GeFrom(a, b, k) ==
    IF k = 0 THEN TRUE
    ELSE IF Limb(a, k) # Limb(b, k) THEN Limb(a, k) > Limb(b, k)
    ELSE GeFrom(a, b, k - 1)

U64Ge(a, b) == GeFrom(a, b, MaxOf({Len(a), Len(b)}))

\* the sum of the limb products that fall in column k, from a's limb i on
RECURSIVE ColumnSum(_, _, _, _)
ColumnSum(a, b, k, i) ==
    IF i > k THEN 0
    ELSE Limb(a, i) * Limb(b, k - i + 1) + ColumnSum(a, b, k, i + 1)

\* the limbs k..n of the product of a and b, with the carry into column k
RECURSIVE ProductFrom(_, _, _, _, _)
ProductFrom(a, b, k, carry, n) ==
    IF k > n THEN <<>>
    ELSE LET sum == ColumnSum(a, b, k, 1) + carry
         IN  << sum % LimbBase >> \o ProductFrom(a, b, k + 1, sum \div LimbBase, n)

\* the product of a and b as a number, in Len(a) + Len(b) limbs
FullProduct(a, b) == ProductFrom(a, b, 1, 0, Len(a) + Len(b))

\* the product does not fit a u64
MulOverflows(a, b) == \E k \in 5..(Len(a) + Len(b)) : FullProduct(a, b)[k] # 0

\* u64 multiplication without the overflow check: the product modulo 2^64
wrapping_mul(a, b) == SubSeq(FullProduct(a, b), 1, 4)

\* the literal 1_000_000
Million == << 16960, 15 >>

(***************************************************************************)
(* evaluator.rs: EvaluatorConfig and the global Rayon pool.  The fields    *)
(* are u64 and usize, so no value is negative; num_threads is an Option.   *)
(* memory_limit_mb, which the sandbox multiplies, is kept as a u64 in      *)
(* limbs; the two time limits are only compared and passed on.             *)
(***************************************************************************)
\* num_threads: None
NumThreadsNone == -1

Config(t, m, c, n) ==
    [timeout_seconds |-> t, memory_limit_mb |-> m,
     cpu_time_limit |-> c, num_threads |-> n]

\* EvaluatorConfig::default() with the thread count n
DefaultConfig(n) == Config(15, U64(512), 12, n)

\* a variant of validate that forgets the CPU time limit
validate_without_cpu(config) ==
    IF ~(config.timeout_seconds > 0) THEN "timeout_seconds"
    ELSE IF ~U64Ge(config.memory_limit_mb, U64(64)) THEN "memory_limit_mb"
    ELSE "ok"

\* the three ensure! in their order: the field of the first that fails, or "ok"
validate(config) ==
    IF ~(config.timeout_seconds > 0) THEN "timeout_seconds"
    ELSE IF ~U64Ge(config.memory_limit_mb, U64(64)) THEN "memory_limit_mb"
    ELSE IF ~(config.cpu_time_limit > 0) THEN "cpu_time_limit"
    ELSE "ok"

\* the warning validate prints before it returns Ok
Warns(config) == config.timeout_seconds < config.cpu_time_limit

\* the size Rayon gives a pool that was asked for 0 threads, or that is
\* built on first use: the number of CPU cores of the host
DefaultThreads == 2

\* a variant of build_global that builds the pool anew every time
build_global_anew(current, num_threads) ==
    IF num_threads = 0 THEN DefaultThreads ELSE num_threads

\* ThreadPoolBuilder::new().num_threads(n).build_global().ok(): the size of
\* the global pool afterwards; current = 0 says that no pool is built yet,
\* and on a pool that is built the call fails and the error is dropped
build_global(current, num_threads) ==
    IF current # 0 THEN current
    ELSE IF num_threads = 0 THEN DefaultThreads
    ELSE num_threads

\* the global pool as a parallel iterator finds it: built on first use
PoolInUse(current) == IF current = 0 THEN DefaultThreads ELSE current

(***************************************************************************)
(* sandbox.rs: parsing of the child's stdout in run_sandboxed_tests.       *)
(***************************************************************************)
\* index of the first character at or after i that is no digit
DigitsEnd(s, i) ==
    LET stops == {j \in i..Len(s) : ~IsDigit(CharAt(s, j))}
    IN  IF stops = {} THEN Len(s) + 1 ELSE MinOf(stops)

\* TEST_RESULTS_PATTERN TESTS_PASSED:(\d+)/(\d+) matches starting at index i
MarkerAt(s, i) ==
    /\ MatchAt(s, "TESTS_PASSED:", i)
    /\ LET d1 == i + 13
           e1 == DigitsEnd(s, d1)
       IN  /\ e1 > d1
           /\ CharAt(s, e1) = "/"
           /\ DigitsEnd(s, e1 + 1) > e1 + 1

DigitValue(c) == Find("0123456789", c, 1) - 1

RECURSIVE DropZeros(_)
DropZeros(d) == IF Len(d) > 1 /\ Head(d) = "0" THEN DropZeros(Tail(d)) ELSE d

\* value of at most 9 decimal digits
RECURSIVE SmallValue(_)
SmallValue(d) ==
    IF d = "" THEN 0
    ELSE 10 * SmallValue(SubSeq(d, 1, Len(d) - 1)) + DigitValue(CharAt(d, Len(d)))

\* str::parse::<i32>().unwrap_or(0) on a string of decimal digits: the value
\* when it fits 32 bits, else 0
ParseI32OrZero(digits) ==
    LET d    == DropZeros(digits)
        high == SmallValue(SubSeq(d, 1, 9))
        last == DigitValue(CharAt(d, 10))
    IN  IF Len(d) <= 9 THEN SmallValue(d)
        ELSE IF Len(d) = 10 /\ (high < 214748364 \/ (high = 214748364 /\ last <= 7))
        THEN 10 * high + last
        ELSE 0

\* (tests_passed, tests_total) of the first marker in stdout, (0, 0) if none
ParseTestResults(stdout_str) ==
    LET hits == {i \in 1..Len(stdout_str) : MarkerAt(stdout_str, i)}
    IN  IF hits = {} THEN <<0, 0>>
        ELSE LET i  == MinOf(hits)
                 d1 == i + 13
                 e1 == DigitsEnd(stdout_str, d1)
                 e2 == DigitsEnd(stdout_str, e1 + 1)
             IN  << ParseI32OrZero(SubSeq(stdout_str, d1, e1 - 1)),
                    ParseI32OrZero(SubSeq(stdout_str, e1 + 1, e2 - 1)) >>

\* a variant of AllPassed that trusts the marker and ignores the exit code
AllPassedIgnoringExit(exit_code, tests_passed, tests_total) ==
    tests_passed = tests_total /\ tests_total > 0

\* the flag of the triple on the normal-exit path
AllPassed(exit_code, tests_passed, tests_total) ==
    exit_code = 0 /\ tests_passed = tests_total /\ tests_total > 0

(***************************************************************************)
(* The program that the child runs, as far as the emitted harness decides  *)
(* it: whether the driver of wrap_tests_for_complete_execution is there,   *)
(* and how many guarded assertions check() runs before it returns.         *)
(***************************************************************************)
HasDriver(program) ==
    Contains(program, "print(f\"TESTS_PASSED:{_passed}/{_total}\")")

\* guarded blocks among the lines, up to the first return _results
RECURSIVE GuardedBeforeReturn(_)
GuardedBeforeReturn(lines) ==
    IF lines = <<>> \/ Trim(Head(lines)) = "return _results" THEN 0
    ELSE (IF Trim(Head(lines)) = "_results.append(True)" THEN 1 ELSE 0)
             + GuardedBeforeReturn(Tail(lines))

\* the driver's call of check gets a candidate: with the entry point "" or
\* "null" the call is check() or check(null), which raises before any report
HarnessRuns(program) ==
    /\ HasDriver(program)
    /\ ~Contains(program, "\n_test_results = check()\n")
    /\ ~Contains(program, "\n_test_results = check(null)\n")

\* -1: the harness prints no marker of its own accord
GuardedAsserts(program) ==
    IF HarnessRuns(program) THEN GuardedBeforeReturn(SplitLines(program)) ELSE -1

\* lines of the test text that hold an assertion
RECURSIVE EmbeddedAsserts(_)
EmbeddedAsserts(lines) ==
    IF lines = <<>> THEN 0
    ELSE (IF AssertPos(Head(lines)) # 0 THEN 1 ELSE 0) + EmbeddedAsserts(Tail(lines))

\* decimal text of a small natural number, as print() writes it
RECURSIVE ToDecimal(_)
ToDecimal(n) ==
    IF n < 10 THEN CharAt("0123456789", n + 1)
    ELSE ToDecimal(n \div 10) \o CharAt("0123456789", (n % 10) + 1)

\* what the driver prints for p passed out of k
ReportLine(p, k) == "TESTS_PASSED:" \o ToDecimal(p) \o "/" \o ToDecimal(k) \o "\n"

(***************************************************************************)
(* Bounds and the inputs the model draws from.                             *)
(***************************************************************************)
MaxBatch == 2

MaxThreads == 2

MaxChildWrites == 1

MaxEvaluators == 2

MaxLines == 4

cAdd == "<think>x</think>\n<answer>" \o FencePython
            \o "\ndef add(a,b):\n    return a+b\n" \o Fence \o "</answer>"

cBlank == "<answer> \n</answer>"

cMul == "def mul(a,b): return a*b"

cSol == "class Solution:\n    def twoSum(s,a): return a"

tAdd == "def check(candidate):\n    assert candidate(1,2)==3\n"

tGap == "def check(candidate):\n    assert candidate(1)==1\n\n    assert candidate(0)==1\n"

tNoAssert == "def check(candidate):\n    pass\n"

Triple(c, t, e) == [completion |-> c, test |-> t, entry_point |-> e]

Catalog ==
    { Triple(cAdd, tAdd, "add"),
      Triple(cAdd, "", "add"),
      Triple(cMul, "null", "mul"),
      Triple(cBlank, tAdd, "add"),
      Triple(cAdd, tAdd, "sub"),
      Triple(cMul, tAdd, "Solution().mul"),
      Triple(cMul, tNoAssert, "null"),
      Triple(cSol, tGap, "Solution().twoSum") }

\* the items that make up the batches of more than one item
PairCatalog ==
    { Triple(cAdd, tAdd, "add"), Triple(cMul, "null", "mul") }

SeqsUpTo(S, n) == UNION {[1..k -> S] : k \in 0..n}

\* the batches tried: every item alone, and every batch over PairCatalog
Batches == SeqsUpTo(Catalog, 1) \cup SeqsUpTo(PairCatalog, MaxBatch)

\* what candidate code may write to stdout by itself
ChildLines == {"TESTS_PASSED:1/1\n"}

\* exit statuses: exit codes 0 and 1, and -1 for a child ended by a signal
ExitStatuses == {0, 1, -1}

\* programs handed to run_sandboxed_tests directly
DirectPrograms == {"", " \n", "print(1)"}

(***************************************************************************)
(* State.                                                                  *)
(***************************************************************************)
VARIABLES
    pool,          \* threads of the global Rayon pool
    callState,     \* "idle", "running", "returned", "value_error", "panicked"
    api,           \* the entry point called: "execution_reward", "run_sandboxed_tests"
    argLens,       \* lengths of the lists as the caller passed them (-1: no list)
    completions,   \* the three slices handed to evaluate_execution_batch
    tests,
    entry_points,
    item,          \* per item: the worker's position and locals
    proc,          \* per item: the sandboxed child, its descendants, its stdout
    hist,          \* per item: what has happened to it so far
    finishOrder,   \* the items in the order their evaluation finished
    result,        \* the value returned to the caller
    evaluators,    \* the configs of the evaluators constructed, in order
    newResult,     \* what the latest call of RewardEvaluator::new returned
    self,          \* the evaluator whose execution_reward was called (0: none)
    wrapIn,        \* the arguments of a call of the exported test wrapper
    wrapOut,       \* what the wrapper returned: for wrapIn, then for its own output
    DEFAULT_EVALUATOR,  \* the Lazy cell of the default evaluator
    callers        \* per Python thread: its call of a module-level function

vars == << pool, callState, api, argLens, completions, tests, entry_points,
           item, proc, hist, finishOrder, result,
           evaluators, newResult, self, wrapIn, wrapOut,
           DEFAULT_EVALUATOR, callers >>

Items == DOMAIN item

\* the (bool, i32, i32) or error that run_sandboxed_tests returns
NoResult == [kind |-> "none", all_passed |-> FALSE, tests_passed |-> 0, tests_total |-> 0]

OkResult(all_passed, tests_passed, tests_total) ==
    [kind |-> "ok", all_passed |-> all_passed,
     tests_passed |-> tests_passed, tests_total |-> tests_total]

ErrResult(what) ==
    [kind |-> what, all_passed |-> FALSE, tests_passed |-> 0, tests_total |-> 0]

HardErrors == {"tempfile_error", "write_error", "spawn_error", "wait_error"}

\* no exit status: the process has not exited, or its status has been collected
NoStatus == -2

NewItem(pc0, program) ==
    [pc |-> pc0, code |-> "", full_code |-> program, tmpfile |-> FALSE,
     reader |-> "none", status |-> NoStatus, stdout_bytes |-> "",
     memory_limit_mb |-> U64(0), res |-> NoResult, reward |-> -1]

NewProc == [child |-> "none", status |-> NoStatus, desc |-> FALSE, out |-> "",
            writes |-> 0, asserts |-> -1, rlimit_as |-> U64(0)]

NewHist == [trail |-> <<>>, tmpCreated |-> FALSE, spawned |-> FALSE,
            timedOut |-> FALSE, killSent |-> FALSE, exitCode |-> NoStatus,
            executed |-> 0, passed |-> 0, stdout |-> ""]

\* what RewardEvaluator::new returns, with the config it was called with
NewOk(config) ==
    [config |-> config, result |-> "ok", failed |-> "", warned |-> Warns(config)]

NewErr(config, failed) ==
    [config |-> config, result |-> "invalid_config", failed |-> failed, warned |-> FALSE]

NoNew == [config |-> Config(0, U64(0), 0, 0), result |-> "none", failed |-> "", warned |-> FALSE]

\* the wrapper has not been called
NoWrap == [test_code |-> "", entry_point |-> ""]

\* Python threads that call the module-level functions
MaxCallers == 2

Callers == 1..MaxCallers

\* the Lazy cell before its first use, and once its closure has returned
LazyUninit == [state |-> "uninit", inits |-> 0, config |-> Config(0, U64(0), 0, 0)]

LazyReady(inits, config) == [state |-> "ready", inits |-> inits, config |-> config]

\* a thread that is in no module-level call
NoCall == [pc |-> "idle", fn |-> "none", completions |-> <<>>, result |-> <<>>]

Init ==
    /\ \E n \in 1..MaxThreads :
          /\ pool = n
          /\ evaluators = << DefaultConfig(n) >>
          /\ newResult = NewOk(DefaultConfig(n))
          /\ DEFAULT_EVALUATOR = LazyReady(1, DefaultConfig(n))
    /\ callers = [t \in Callers |-> NoCall]
    /\ self = 0
    /\ wrapIn = NoWrap
    /\ wrapOut = <<>>
    /\ callState = "idle"
    /\ api = "none"
    /\ argLens = <<>>
    /\ completions = <<>>
    /\ tests = <<>>
    /\ entry_points = <<>>
    /\ item = <<>>
    /\ proc = <<>>
    /\ hist = <<>>
    /\ finishOrder = <<>>
    /\ result = <<>>

(***************************************************************************)
(* bindings.rs: execution_reward and extract_string_list_from_kwargs.      *)
(* A keyword argument is missing, is some value that is no list, or is a   *)
(* list of strings.                                                        *)
(***************************************************************************)
KwMissing == [kind |-> "missing", items |-> <<>>]

KwNotAList == [kind |-> "not_a_list", items |-> <<>>]

KwList(xs) == [kind |-> "list", items |-> xs]

\* a variant of KwLengthOk that accepts a list that is too long
KwLengthAtLeast(kw, expected_len) ==
    kw.kind # "list" \/ Len(kw.items) >= expected_len

\* the length validation of a list argument
KwLengthOk(kw, expected_len) == kw.kind # "list" \/ Len(kw.items) = expected_len

\* the vector extract_string_list_from_kwargs returns when it returns one
KwStrings(kw, expected_len) ==
    IF kw.kind = "list" THEN kw.items ELSE [k \in 1..expected_len |-> ""]

KwLen(kw) == IF kw.kind = "list" THEN Len(kw.items) ELSE -1

\* the argument shapes tried for a list xs: itself, one too long, one too
\* short, and, in calls with at most one completion, no list at all
KwVariants(xs) ==
    { KwList(xs), KwList(Append(xs, "")) }
        \cup (IF xs = <<>> THEN {} ELSE {KwList(SubSeq(xs, 1, Len(xs) - 1))})
        \cup (IF Len(xs) <= 1 THEN {KwMissing, KwNotAList} ELSE {})

\* the two assert_eq! of evaluate_execution_batch
LengthsAgree(cs, ts, es) == Len(cs) = Len(ts) /\ Len(cs) = Len(es)

\* par_iter().zip().zip(): as many items as the shortest slice
ZipLen(cs, ts, es) == MinOf({Len(cs), Len(ts), Len(es)})

evaluate_execution_batch(cs, ts, es) ==
    IF ~LengthsAgree(cs, ts, es)
    THEN /\ callState' = "panicked"
         /\ UNCHANGED << pool, completions, tests, entry_points, item, proc, hist >>
    ELSE /\ callState' = "running"
         /\ pool' = PoolInUse(pool)
         /\ completions' = cs
         /\ tests' = ts
         /\ entry_points' = es
         /\ item' = [i \in 1..ZipLen(cs, ts, es) |-> NewItem("todo", "")]
         /\ proc' = [i \in 1..ZipLen(cs, ts, es) |-> NewProc]
         /\ hist' = [i \in 1..ZipLen(cs, ts, es) |-> NewHist]

execution_reward(evaluator, batch, test_kw, entry_point_kw) ==
    LET cs == [k \in 1..Len(batch) |-> batch[k].completion]
        n  == Len(cs)
    IN  /\ callState = "idle"
        /\ evaluator \in 1..Len(evaluators)
        /\ self' = evaluator
        /\ api' = "execution_reward"
        /\ argLens' = << n, KwLen(test_kw), KwLen(entry_point_kw) >>
        /\ UNCHANGED << finishOrder, result, evaluators, newResult, wrapIn, wrapOut,
                    DEFAULT_EVALUATOR, callers >>
        /\ IF ~KwLengthOk(test_kw, n) \/ ~KwLengthOk(entry_point_kw, n)
           THEN /\ callState' = "value_error"
                /\ UNCHANGED << pool, completions, tests, entry_points, item, proc, hist >>
           ELSE evaluate_execution_batch(cs, KwStrings(test_kw, n),
                                         KwStrings(entry_point_kw, n))

\* a direct call of the exported sandbox runner, with the limits of its
\* signature
run_sandboxed_tests_call(code) ==
    /\ callState = "idle"
    /\ callState' = "running"
    /\ api' = "run_sandboxed_tests"
    /\ item' = << [NewItem("sandbox", code) EXCEPT !.memory_limit_mb = U64(512)] >>
    /\ proc' = << NewProc >>
    /\ hist' = << NewHist >>
    /\ UNCHANGED << pool, argLens, completions, tests, entry_points,
                    finishOrder, result, evaluators, newResult, self, wrapIn, wrapOut,
                    DEFAULT_EVALUATOR, callers >>

(***************************************************************************)
(* evaluator.rs: RewardEvaluator::new, as PyRewardEvaluator::new calls it. *)
(* A config that fails validation gives an error and no evaluator; a valid *)
(* one asks for the global pool when it names a thread count, and gives    *)
(* the evaluator whatever the answer.                                      *)
(***************************************************************************)
\* a variant of RewardEvaluator_new that asks for the global pool before it
\* validates the config
RewardEvaluator_new_pool_first(config) ==
    /\ pool' = IF config.num_threads # NumThreadsNone
               THEN build_global(pool, config.num_threads)
               ELSE pool
    /\ IF validate(config) # "ok"
       THEN /\ newResult' = NewErr(config, validate(config))
            /\ UNCHANGED evaluators
       ELSE /\ Len(evaluators) < MaxEvaluators
            /\ evaluators' = Append(evaluators, config)
            /\ newResult' = NewOk(config)
    /\ UNCHANGED << callState, api, argLens, completions, tests, entry_points,
                    item, proc, hist, finishOrder, result, self, wrapIn, wrapOut,
                    DEFAULT_EVALUATOR, callers >>

RewardEvaluator_new(config) ==
    /\ IF validate(config) # "ok"
       THEN /\ newResult' = NewErr(config, validate(config))
            /\ UNCHANGED << pool, evaluators >>
       ELSE /\ Len(evaluators) < MaxEvaluators
            /\ pool' = IF config.num_threads # NumThreadsNone
                       THEN build_global(pool, config.num_threads)
                       ELSE pool
            /\ evaluators' = Append(evaluators, config)
            /\ newResult' = NewOk(config)
    /\ UNCHANGED << callState, api, argLens, completions, tests, entry_points,
                    item, proc, hist, finishOrder, result, self, wrapIn, wrapOut,
                    DEFAULT_EVALUATOR, callers >>

(***************************************************************************)
(* evaluator.rs: evaluate_single_execution, one action per step, run by a  *)
(* thread of the pool for one item of the batch.                           *)
(***************************************************************************)
\* items a pool thread is working on
Active == {i \in Items : item[i].pc \notin {"todo", "done"}}

Trail(i, step) == [hist EXCEPT ![i].trail = Append(@, step)]

\* the item's evaluation returns reward r
Finish(i, r) ==
    /\ item' = [item EXCEPT ![i].pc = "done", ![i].reward = r]
    /\ finishOrder' = Append(finishOrder, i)

BatchFrame == << pool, callState, api, argLens, completions, tests, entry_points, result,
                evaluators, newResult, self, wrapIn, wrapOut,
                    DEFAULT_EVALUATOR, callers >>

\* a pool thread takes the next item of the parallel iterator
Start(i) ==
    /\ callState = "running"
    /\ api = "execution_reward"
    /\ item[i].pc = "todo"
    /\ Cardinality(Active) < pool
    /\ item' = [item EXCEPT ![i].pc = "test_check"]
    /\ UNCHANGED << BatchFrame, proc, hist, finishOrder >>

TestCheck(i) ==
    /\ item[i].pc = "test_check"
    /\ hist' = Trail(i, "test_check")
    /\ IF TestMissing(tests[i])
       THEN Finish(i, 0)
       ELSE /\ item' = [item EXCEPT ![i].pc = "extract"]
            /\ UNCHANGED finishOrder
    /\ UNCHANGED << BatchFrame, proc >>

Extract(i) ==
    /\ item[i].pc = "extract"
    /\ hist' = Trail(i, "extract")
    /\ LET code == extract_code_from_completion(completions[i])
       IN  IF CodeMissing(code)
           THEN Finish(i, 0)
           ELSE /\ item' = [item EXCEPT ![i].pc = "validate",
                                        ![i].code = TypingPrelude \o code]
                /\ UNCHANGED finishOrder
    /\ UNCHANGED << BatchFrame, proc >>

Validate(i) ==
    /\ item[i].pc = "validate"
    /\ hist' = Trail(i, "validate")
    /\ IF ~EntryPointValid(item[i].code, entry_points[i])
       THEN Finish(i, 0)
       ELSE /\ item' = [item EXCEPT ![i].pc = "wrap"]
            /\ UNCHANGED finishOrder
    /\ UNCHANGED << BatchFrame, proc >>

Wrap(i) ==
    /\ item[i].pc = "wrap"
    /\ hist' = Trail(i, "wrap")
    /\ item' = [item EXCEPT
                   ![i].pc = "sandbox",
                   ![i].memory_limit_mb = evaluators[self].memory_limit_mb,
                   ![i].full_code =
                       FullCode(item[i].code,
                                wrap_tests_for_complete_execution(tests[i],
                                                                  entry_points[i]))]
    /\ UNCHANGED << BatchFrame, proc, finishOrder >>

(***************************************************************************)
(* sandbox.rs: run_sandboxed_tests, one action per step.  Every return     *)
(* drops the temp file handle, which removes the file.                     *)
(***************************************************************************)
TimeoutResult == OkResult(FALSE, 0, 0)

\* a variant of ExitResult that reports no counts unless every test passed
ExitResultZeroed(exit_code, stdout_str) ==
    LET counts == ParseTestResults(stdout_str)
    IN  IF AllPassed(exit_code, counts[1], counts[2])
        THEN OkResult(TRUE, counts[1], counts[2])
        ELSE OkResult(FALSE, 0, 0)

\* the triple computed on the normal-exit path
ExitResult(exit_code, stdout_str) ==
    LET counts == ParseTestResults(stdout_str)
    IN  OkResult(AllPassed(exit_code, counts[1], counts[2]), counts[1], counts[2])

\* a variant of SbReturn that keeps the temp file when the run ends in an error
SbReturnKeeping(i, r) ==
    item' = [item EXCEPT ![i].pc = "score", ![i].res = r,
                         ![i].tmpfile = (r.kind # "ok") /\ @,
                         ![i].status = NoStatus, ![i].stdout_bytes = ""]

\* run_sandboxed_tests returns r to evaluate_single_execution or to the caller:
\* its locals are dropped, the temp file with them
SbReturn(i, r) ==
    item' = [item EXCEPT ![i].pc = "score", ![i].res = r, ![i].tmpfile = FALSE,
                         ![i].status = NoStatus, ![i].stdout_bytes = ""]

\* the parent collects the exit status of the launched process
Reaped(i) ==
    [proc EXCEPT ![i].child = "reaped", ![i].status = NoStatus, ![i].writes = 0]

\* the early return for an empty program
SbEmptyCheck(i) ==
    /\ item[i].pc = "sandbox"
    /\ hist' = Trail(i, "sandbox")
    /\ IF Trim(item[i].full_code) = ""
       THEN SbReturn(i, OkResult(FALSE, 0, 0))
       ELSE item' = [item EXCEPT ![i].pc = "sb_tempfile"]
    /\ UNCHANGED << BatchFrame, proc, finishOrder >>

\* Builder::tempfile_in
SbTempfile(i) ==
    /\ item[i].pc = "sb_tempfile"
    /\ \/ /\ item' = [item EXCEPT ![i].pc = "sb_write", ![i].tmpfile = TRUE]
          /\ hist' = [hist EXCEPT ![i].tmpCreated = TRUE]
       \/ /\ SbReturn(i, ErrResult("tempfile_error"))
          /\ UNCHANGED hist
    /\ UNCHANGED << BatchFrame, proc, finishOrder >>

\* write_all
SbWrite(i) ==
    /\ item[i].pc = "sb_write"
    /\ \/ item' = [item EXCEPT ![i].pc = "sb_spawn"]
       \/ SbReturn(i, ErrResult("write_error"))
    /\ UNCHANGED << BatchFrame, proc, hist, finishOrder >>

\* cmd.spawn()
\* memory_limit_mb * 1_000_000 in a build with overflow checks, when the
\* product does not fit: the multiplication panics, the unwinding drops the
\* temp file, and the panic is resumed in the caller of the batch
SbOverflow(i) ==
    /\ item[i].pc = "sb_spawn"
    /\ MulOverflows(item[i].memory_limit_mb, Million)
    /\ item' = [item EXCEPT ![i].pc = "panicked", ![i].tmpfile = FALSE]
    /\ callState' = "panicked"
    /\ UNCHANGED << pool, api, argLens, completions, tests, entry_points, result,
                    evaluators, newResult, self, wrapIn, wrapOut,
                    DEFAULT_EVALUATOR, callers, proc, hist, finishOrder >>

\* the firejail command is built, with the address-space limit of
\* memory_limit_mb * 1_000_000 as the multiplication gives it when it does
\* not panic, then cmd.spawn()
SbSpawn(i) ==
    /\ item[i].pc = "sb_spawn"
    /\ \/ /\ item' = [item EXCEPT ![i].pc = "sb_reader"]
          /\ proc' = [proc EXCEPT ![i].child = "running",
                                  ![i].rlimit_as =
                                      wrapping_mul(item[i].memory_limit_mb, Million),
                                  ![i].asserts = GuardedAsserts(item[i].full_code)]
          /\ hist' = [hist EXCEPT ![i].spawned = TRUE]
       \/ /\ SbReturn(i, ErrResult("spawn_error"))
          /\ UNCHANGED << proc, hist >>
    /\ UNCHANGED << BatchFrame, finishOrder >>

\* a variant of SbStartReader that goes on to the wait with no reader thread:
\* stdout is to be read once the child has exited
SbStartReaderLate(i) ==
    /\ item[i].pc = "sb_reader"
    /\ item' = [item EXCEPT ![i].pc = "sb_wait"]
    /\ UNCHANGED << BatchFrame, proc, hist, finishOrder >>

\* std::thread::spawn of the stdout reader
SbStartReader(i) ==
    /\ item[i].pc = "sb_reader"
    /\ item' = [item EXCEPT ![i].pc = "sb_wait", ![i].reader = "reading"]
    /\ UNCHANGED << BatchFrame, proc, hist, finishOrder >>

\* wait_timeout returns Some(status): the child has exited and is reaped
SbWaitExited(i) ==
    /\ item[i].pc = "sb_wait"
    /\ proc[i].child = "zombie"
    /\ proc' = Reaped(i)
    /\ item' = [item EXCEPT ![i].pc = "sb_join", ![i].status = proc[i].status]
    /\ hist' = [hist EXCEPT ![i].exitCode = proc[i].status]
    /\ UNCHANGED << BatchFrame, finishOrder >>

\* wait_timeout returns None: the deadline elapsed with the child running
SbWaitTimeout(i) ==
    /\ item[i].pc = "sb_wait"
    /\ proc[i].child = "running"
    /\ item' = [item EXCEPT ![i].pc = "sb_kill"]
    /\ hist' = [hist EXCEPT ![i].timedOut = TRUE]
    /\ UNCHANGED << BatchFrame, proc, finishOrder >>

\* wait_timeout returns Err: the wait on the running child failed
SbWaitError(i) ==
    /\ item[i].pc = "sb_wait"
    /\ proc[i].child = "running"
    /\ SbReturn(i, ErrResult("wait_error"))
    /\ UNCHANGED << BatchFrame, proc, hist, finishOrder >>

\* child.kill(): SIGKILL to the launched process, and to no other
SbKill(i) ==
    /\ item[i].pc = "sb_kill"
    /\ item' = [item EXCEPT ![i].pc = "sb_reap"]
    /\ proc' = IF proc[i].child = "running"
               THEN [proc EXCEPT ![i].child = "zombie", ![i].status = -1]
               ELSE proc
    /\ hist' = [hist EXCEPT ![i].killSent = TRUE]
    /\ UNCHANGED << BatchFrame, finishOrder >>

\* a variant of SbReap that reports what the killed child had written
SbReapReporting(i) ==
    /\ item[i].pc = "sb_reap"
    /\ proc[i].child = "zombie"
    /\ proc' = Reaped(i)
    /\ SbReturn(i, ExitResult(-1, proc[i].out))
    /\ UNCHANGED << BatchFrame, hist, finishOrder >>

\* a variant of SbReap that reports the timeout as an error
SbReapFailing(i) ==
    /\ item[i].pc = "sb_reap"
    /\ proc[i].child = "zombie"
    /\ proc' = Reaped(i)
    /\ SbReturn(i, ErrResult("wait_error"))
    /\ UNCHANGED << BatchFrame, hist, finishOrder >>

\* child.wait() after the kill, then the return of the timeout path
SbReap(i) ==
    /\ item[i].pc = "sb_reap"
    /\ proc[i].child = "zombie"
    /\ proc' = Reaped(i)
    /\ SbReturn(i, TimeoutResult)
    /\ UNCHANGED << BatchFrame, hist, finishOrder >>

\* stdout_thread.join() returns, then the parse and the return of the
\* normal-exit path
SbJoin(i) ==
    /\ item[i].pc = "sb_join"
    /\ item[i].reader = "done"
    /\ SbReturn(i, ExitResult(item[i].status, item[i].stdout_bytes))
    /\ hist' = [hist EXCEPT ![i].stdout = item[i].stdout_bytes]
    /\ UNCHANGED << BatchFrame, proc, finishOrder >>

\* the run of item i has not returned yet
InRun(i) == item[i].pc \notin {"score", "done"}

\* the reader thread: read_to_end takes what is left in the pipe and returns
\* once every holder of the write end has closed it; the bytes read are
\* dropped with the thread when the run has returned without joining it
ReaderEOF(i) ==
    /\ item[i].reader = "reading"
    /\ proc[i].child # "running"
    /\ ~proc[i].desc
    /\ item' = [item EXCEPT ![i].reader = "done",
                            ![i].stdout_bytes = IF InRun(i) THEN @ \o proc[i].out ELSE ""]
    /\ proc' = [proc EXCEPT ![i].out = ""]
    /\ UNCHANGED << BatchFrame, hist, finishOrder >>

\* a variant of RewardOf that marks an error with a reward of its own
RewardOfSigned(res) ==
    IF res.kind = "ok" THEN (IF res.all_passed THEN 1 ELSE 0) ELSE -1

\* the match on the runner's result in evaluate_single_execution
RewardOf(res) ==
    IF res.kind = "ok" THEN (IF res.all_passed THEN 1 ELSE 0) ELSE 0

\* a variant of Score that lets a hard error end the batch call
ScoreAborting(i) ==
    /\ item[i].pc = "score"
    /\ api = "execution_reward"
    /\ IF item[i].res.kind \in HardErrors
       THEN /\ callState' = "runtime_error"
            /\ UNCHANGED << pool, api, argLens, completions, tests, entry_points,
                            result, item, finishOrder,
                            evaluators, newResult, self, wrapIn, wrapOut,
                    DEFAULT_EVALUATOR, callers >>
       ELSE /\ Finish(i, RewardOf(item[i].res))
            /\ UNCHANGED BatchFrame
    /\ UNCHANGED << proc, hist >>

Score(i) ==
    /\ item[i].pc = "score"
    /\ api = "execution_reward"
    /\ Finish(i, RewardOf(item[i].res))
    /\ UNCHANGED << BatchFrame, proc, hist >>

\* a variant of Collected that keeps the rewards in the order the items finished
CollectedAsFinished == [k \in 1..Len(finishOrder) |-> item[finishOrder[k]].reward]

\* collect(): the rewards by item index, once every item is done
Collected == [i \in Items |-> item[i].reward]

Collect ==
    /\ callState = "running"
    /\ api = "execution_reward"
    /\ \A i \in Items : item[i].pc = "done"
    /\ callState' = "returned"
    /\ result' = Collected
    /\ UNCHANGED << pool, api, argLens, completions, tests, entry_points,
                    item, proc, hist, finishOrder,
                    evaluators, newResult, self, wrapIn, wrapOut,
                    DEFAULT_EVALUATOR, callers >>

\* the direct call returns the runner's result
RunReturn ==
    /\ callState = "running"
    /\ api = "run_sandboxed_tests"
    /\ item[1].pc = "score"
    /\ callState' = "returned"
    /\ result' = item[1].res
    /\ item' = [item EXCEPT ![1].pc = "done"]
    /\ UNCHANGED << pool, api, argLens, completions, tests, entry_points,
                    proc, hist, finishOrder,
                    evaluators, newResult, self, wrapIn, wrapOut,
                    DEFAULT_EVALUATOR, callers >>

(***************************************************************************)
(* The sandboxed child: untrusted code.  The candidate code runs first and *)
(* may write to stdout, fork, exit with any status or never exit; if it    *)
(* lets the harness run, the driver reports and exits.  The launched       *)
(* process is followed until the run that launched it returns.             *)
(***************************************************************************)
ChildFrame == << BatchFrame, item, finishOrder >>

ChildWrite(i, line) ==
    /\ InRun(i)
    /\ proc[i].child = "running"
    /\ proc[i].writes < MaxChildWrites
    /\ proc' = [proc EXCEPT ![i].out = @ \o line, ![i].writes = @ + 1]
    /\ UNCHANGED << ChildFrame, hist >>

\* a process of the child's tree other than the launched one holds stdout
ChildFork(i) ==
    /\ InRun(i)
    /\ proc[i].child = "running"
    /\ ~proc[i].desc
    /\ proc' = [proc EXCEPT ![i].desc = TRUE]
    /\ UNCHANGED << ChildFrame, hist >>

ChildExit(i, status) ==
    /\ InRun(i)
    /\ proc[i].child = "running"
    /\ proc' = [proc EXCEPT ![i].child = "zombie", ![i].status = status,
                            ![i].writes = 0]
    /\ UNCHANGED << ChildFrame, hist >>

\* the emitted driver: check() ran its guarded assertions, p of them passed
HarnessReport(i, p) ==
    /\ InRun(i)
    /\ proc[i].child = "running"
    /\ proc[i].writes = 0
    /\ proc[i].asserts >= 0
    /\ p \in 0..proc[i].asserts
    /\ proc' = [proc EXCEPT ![i].out = @ \o ReportLine(p, proc[i].asserts),
                            ![i].writes = 0,
                            ![i].child = "zombie",
                            ![i].status = IF p = proc[i].asserts THEN 0 ELSE 1]
    /\ hist' = [hist EXCEPT ![i].executed = proc[i].asserts, ![i].passed = p]
    /\ UNCHANGED ChildFrame

DescExit(i) ==
    /\ proc[i].desc
    /\ proc' = [proc EXCEPT ![i].desc = FALSE]
    /\ UNCHANGED << ChildFrame, hist >>

Next ==
    \/ \E b \in Batches :
         \E tk \in KwVariants([k \in 1..Len(b) |-> b[k].test]) :
           \E ek \in KwVariants([k \in 1..Len(b) |-> b[k].entry_point]) :
             \E evaluator \in 1..Len(evaluators) :
               execution_reward(evaluator, b, tk, ek)
    \/ \E code \in DirectPrograms : run_sandboxed_tests_call(code)
    \/ \E i \in Items : Start(i)
    \/ \E i \in Items : TestCheck(i)
    \/ \E i \in Items : Extract(i)
    \/ \E i \in Items : Validate(i)
    \/ \E i \in Items : Wrap(i)
    \/ \E i \in Items : SbEmptyCheck(i)
    \/ \E i \in Items : SbTempfile(i)
    \/ \E i \in Items : SbWrite(i)
    \/ \E i \in Items : SbSpawn(i)
    \/ \E i \in Items : SbStartReader(i)
    \/ \E i \in Items : SbWaitExited(i)
    \/ \E i \in Items : SbWaitTimeout(i)
    \/ \E i \in Items : SbWaitError(i)
    \/ \E i \in Items : SbKill(i)
    \/ \E i \in Items : SbReap(i)
    \/ \E i \in Items : SbJoin(i)
    \/ \E i \in Items : ReaderEOF(i)
    \/ \E i \in Items : Score(i)
    \/ \E i \in Items : \E line \in ChildLines : ChildWrite(i, line)
    \/ \E i \in Items : ChildFork(i)
    \/ \E i \in Items : \E status \in ExitStatuses : ChildExit(i, status)
    \/ \E i \in Items : \E p \in 0..MaxOf({proc[i].asserts, 0}) : HarnessReport(i, p)
    \/ \E i \in Items : DescExit(i)
    \/ Collect
    \/ RunReturn

Spec == Init /\ [][Next]_vars

(***************************************************************************)
(* The sandbox runner called by itself, with fairness: the calling thread  *)
(* and the reader thread both keep running, and the deadline of            *)
(* wait_timeout elapses; nothing makes the child or its descendants move.  *)
(***************************************************************************)
RunNext ==
    \/ \E code \in DirectPrograms : run_sandboxed_tests_call(code)
    \/ \E i \in Items : SbEmptyCheck(i)
    \/ \E i \in Items : SbTempfile(i)
    \/ \E i \in Items : SbWrite(i)
    \/ \E i \in Items : SbSpawn(i)
    \/ \E i \in Items : SbStartReader(i)
    \/ \E i \in Items : SbWaitExited(i)
    \/ \E i \in Items : SbWaitTimeout(i)
    \/ \E i \in Items : SbWaitError(i)
    \/ \E i \in Items : SbKill(i)
    \/ \E i \in Items : SbReap(i)
    \/ \E i \in Items : SbJoin(i)
    \/ \E i \in Items : ReaderEOF(i)
    \/ \E i \in Items : \E line \in ChildLines : ChildWrite(i, line)
    \/ \E i \in Items : ChildFork(i)
    \/ \E i \in Items : \E status \in ExitStatuses : ChildExit(i, status)
    \/ \E i \in Items : DescExit(i)
    \/ RunReturn

\* a step of the thread that called run_sandboxed_tests
RunnerStep ==
    \/ \E i \in Items :
          \/ SbEmptyCheck(i) \/ SbTempfile(i) \/ SbWrite(i) \/ SbSpawn(i)
          \/ SbStartReader(i) \/ SbWaitExited(i) \/ SbWaitTimeout(i)
          \/ SbWaitError(i) \/ SbKill(i) \/ SbReap(i) \/ SbJoin(i)
    \/ RunReturn

\* a step of the stdout reader thread
ReaderStep == \E i \in Items : ReaderEOF(i)

FairRunSpec ==
    /\ Init
    /\ [][RunNext]_vars
    /\ WF_vars(RunnerStep)
    /\ WF_vars(ReaderStep)

(***************************************************************************)
(* Constructions and batch calls from the start of the process: no pool is *)
(* built and no evaluator exists.  Evaluators are constructed at any time, *)
(* also while a batch call runs, and the batch holds no completion.        *)
(***************************************************************************)
TimeoutValues == {0, 1}

MemoryValues == {U64(63), U64(64)}

CpuValues == {0, 1, 2}

ThreadValues == {NumThreadsNone} \cup (0..MaxThreads)

Configs ==
    { Config(t, m, c, n) :
          t \in TimeoutValues, m \in MemoryValues, c \in CpuValues, n \in ThreadValues }

Boot ==
    /\ pool = 0
    /\ evaluators = <<>>
    /\ newResult = NoNew
    /\ DEFAULT_EVALUATOR = LazyUninit
    /\ callers = [t \in Callers |-> NoCall]
    /\ self = 0
    /\ wrapIn = NoWrap
    /\ wrapOut = <<>>
    /\ callState = "idle"
    /\ api = "none"
    /\ argLens = <<>>
    /\ completions = <<>>
    /\ tests = <<>>
    /\ entry_points = <<>>
    /\ item = <<>>
    /\ proc = <<>>
    /\ hist = <<>>
    /\ finishOrder = <<>>
    /\ result = <<>>

NewNext ==
    \/ \E config \in Configs : RewardEvaluator_new(config)
    \/ \E evaluator \in 1..Len(evaluators) :
         execution_reward(evaluator, <<>>, KwList(<<>>), KwList(<<>>))
    \/ Collect

NewSpec == Boot /\ [][NewNext]_vars

(***************************************************************************)
(* Batch calls on one of several evaluators: from the start of the         *)
(* process, evaluators with the default limits and a thread count of their *)
(* own are constructed, then one of them scores a full batch.  The         *)
(* children exit or run on until the deadline; they neither fork nor write *)
(* a marker of their own, and the wait on them does not fail.              *)
(***************************************************************************)
PoolBatches == {b \in SeqsUpTo(PairCatalog, MaxBatch) : Len(b) = MaxBatch}

PoolNext ==
    \/ \E n \in 1..MaxThreads :
         /\ callState = "idle"
         /\ RewardEvaluator_new(DefaultConfig(n))
    \/ \E b \in PoolBatches :
         \E evaluator \in 1..Len(evaluators) :
           execution_reward(evaluator, b,
                            KwList([k \in 1..Len(b) |-> b[k].test]),
                            KwList([k \in 1..Len(b) |-> b[k].entry_point]))
    \/ \E i \in Items : Start(i)
    \/ \E i \in Items : TestCheck(i)
    \/ \E i \in Items : Extract(i)
    \/ \E i \in Items : Validate(i)
    \/ \E i \in Items : Wrap(i)
    \/ \E i \in Items : SbEmptyCheck(i)
    \/ \E i \in Items : SbTempfile(i)
    \/ \E i \in Items : SbWrite(i)
    \/ \E i \in Items : SbSpawn(i)
    \/ \E i \in Items : SbStartReader(i)
    \/ \E i \in Items : SbWaitExited(i)
    \/ \E i \in Items : SbWaitTimeout(i)
    \/ \E i \in Items : SbKill(i)
    \/ \E i \in Items : SbReap(i)
    \/ \E i \in Items : SbJoin(i)
    \/ \E i \in Items : ReaderEOF(i)
    \/ \E i \in Items : Score(i)
    \/ \E i \in Items : \E status \in ExitStatuses : ChildExit(i, status)
    \/ \E i \in Items : \E p \in 0..MaxOf({proc[i].asserts, 0}) : HarnessReport(i, p)
    \/ Collect

PoolSpec == Boot /\ [][PoolNext]_vars

(***************************************************************************)
(* The address-space limit of the child, over the range of memory limits   *)
(* the constructor may be given: from the start of the process evaluators  *)
(* are constructed with memory limits around 64, around the largest value  *)
(* whose product with 1_000_000 fits a u64, and up to u64::MAX, then one   *)
(* of them scores a batch of one item, whose child exits in time.          *)
(***************************************************************************)
\* 18_446_744_073_709, the last memory limit whose product fits a u64
LastExactMb == << 46573, 63392, 4294, 0 >>

\* 18_446_744_073_710
FirstWrappedMb == << 46574, 63392, 4294, 0 >>

\* 2^63
HalfRangeMb == << 0, 0, 0, 32768 >>

LimitMemoryValues ==
    { U64(63), U64(64), U64(512), LastExactMb, FirstWrappedMb, HalfRangeMb, U64Max }

LimitBatches == { << p >> : p \in PairCatalog }

LimitNext ==
    \/ \E m \in LimitMemoryValues :
         /\ callState = "idle"
         /\ RewardEvaluator_new(Config(15, m, 12, 1))
    \/ \E b \in LimitBatches :
         \E evaluator \in 1..Len(evaluators) :
           execution_reward(evaluator, b,
                            KwList([k \in 1..Len(b) |-> b[k].test]),
                            KwList([k \in 1..Len(b) |-> b[k].entry_point]))
    \/ \E i \in Items : Start(i)
    \/ \E i \in Items : TestCheck(i)
    \/ \E i \in Items : Extract(i)
    \/ \E i \in Items : Validate(i)
    \/ \E i \in Items : Wrap(i)
    \/ \E i \in Items : SbEmptyCheck(i)
    \/ \E i \in Items : SbTempfile(i)
    \/ \E i \in Items : SbWrite(i)
    \/ \E i \in Items : SbOverflow(i)
    \/ \E i \in Items : SbSpawn(i)
    \/ \E i \in Items : SbStartReader(i)
    \/ \E i \in Items : SbWaitExited(i)
    \/ \E i \in Items : SbJoin(i)
    \/ \E i \in Items : ReaderEOF(i)
    \/ \E i \in Items : Score(i)
    \/ \E i \in Items : \E status \in ExitStatuses : ChildExit(i, status)
    \/ Collect

LimitSpec == Boot /\ [][LimitNext]_vars

(***************************************************************************)
(* The exported test wrapper called by itself: on a test text, and then on *)
(* what it returned, with the same entry point.  The texts are all the     *)
(* texts of up to MaxLines lines over TestLines: the def line of check, an *)
(* assertion in its body, a blank line, an assertion at the indent of the  *)
(* def line, a body line with "assert" in a comment, and a body line       *)
(* without it.                                                             *)
(***************************************************************************)
TestLines ==
    { "def check(c):", "    assert c(1)", "", "assert c(0)",
      "    x = 1 # assert x", "    pass" }

TestTexts == {JoinLines(ls) : ls \in UNION {[1..k -> TestLines] : k \in 1..MaxLines}}

WrapInit ==
    /\ wrapIn \in {[test_code |-> t, entry_point |-> "f"] : t \in TestTexts}
    /\ wrapOut = <<>>
    /\ pool = 0
    /\ evaluators = <<>>
    /\ newResult = NoNew
    /\ DEFAULT_EVALUATOR = LazyUninit
    /\ callers = [t \in Callers |-> NoCall]
    /\ self = 0
    /\ callState = "idle"
    /\ api = "none"
    /\ argLens = <<>>
    /\ completions = <<>>
    /\ tests = <<>>
    /\ entry_points = <<>>
    /\ item = <<>>
    /\ proc = <<>>
    /\ hist = <<>>
    /\ finishOrder = <<>>
    /\ result = <<>>

WrapFrame == << pool, callState, api, argLens, completions, tests, entry_points,
                item, proc, hist, finishOrder, result,
                evaluators, newResult, self, wrapIn,
                DEFAULT_EVALUATOR, callers >>

\* wrap_tests_for_complete_execution(test_code, entry_point) from Python
wrap_tests_call ==
    /\ wrapOut = <<>>
    /\ wrapOut' = << wrap_tests_for_complete_execution(wrapIn.test_code,
                                                       wrapIn.entry_point) >>
    /\ UNCHANGED WrapFrame

\* the same call on the text the first call returned
wrap_tests_again ==
    /\ Len(wrapOut) = 1
    /\ wrapOut' = Append(wrapOut,
                         wrap_tests_for_complete_execution(wrapOut[1],
                                                           wrapIn.entry_point))
    /\ UNCHANGED WrapFrame

WrapNext ==
    \/ wrap_tests_call
    \/ wrap_tests_again

WrapSpec == WrapInit /\ [][WrapNext]_vars

(***************************************************************************)
(* The sandbox runner called by itself on a program whose child writes     *)
(* what it likes to stdout: a marker of its own, a marker with more passed *)
(* than total, a marker whose total does not fit 32 bits, a marker without *)
(* digits, a line that is no marker; then it exits with any status, or     *)
(* runs into the deadline.                                                 *)
(***************************************************************************)
StdoutLines ==
    { "TESTS_PASSED:1/1\n", "TESTS_PASSED:5/3\n", "TESTS_PASSED:1/99999999999\n",
      "TESTS_PASSED:/1\n", "ok\n" }

RunnerNext ==
    \/ \E code \in DirectPrograms : run_sandboxed_tests_call(code)
    \/ \E i \in Items : SbEmptyCheck(i)
    \/ \E i \in Items : SbTempfile(i)
    \/ \E i \in Items : SbWrite(i)
    \/ \E i \in Items : SbSpawn(i)
    \/ \E i \in Items : SbStartReader(i)
    \/ \E i \in Items : SbWaitExited(i)
    \/ \E i \in Items : SbWaitTimeout(i)
    \/ \E i \in Items : SbWaitError(i)
    \/ \E i \in Items : SbKill(i)
    \/ \E i \in Items : SbReap(i)
    \/ \E i \in Items : SbJoin(i)
    \/ \E i \in Items : ReaderEOF(i)
    \/ \E i \in Items : \E line \in StdoutLines : ChildWrite(i, line)
    \/ \E i \in Items : \E status \in ExitStatuses : ChildExit(i, status)
    \/ RunReturn

RunnerSpec == Init /\ [][RunnerNext]_vars

(***************************************************************************)
(* The steps of evaluate_single_execution up to the entry-point            *)
(* validation, on batches of one item: a completion that is plain code,    *)
(* with a test, and an entry point that is a name, a dotted expression, a  *)
(* Solution() method, an expression that ends in '.', "null" or empty.     *)
(***************************************************************************)
ValidCodes ==
    { "def add(a): pass",
      "def addx(a): pass",
      "def twoSum(s): pass",
      "class Solution:\n def twoSum(s): pass",
      "class Solution:\n pass",
      "x = 1" }

ValidEntryPoints ==
    { "add", "twoSum", "m.add", "Solution().twoSum", "Solution().", "null", "" }

ValidBatches == {<< Triple(c, tAdd, e) >> : c \in ValidCodes, e \in ValidEntryPoints}

ValidNext ==
    \/ \E b \in ValidBatches :
         \E evaluator \in 1..Len(evaluators) :
           execution_reward(evaluator, b, KwList(<< b[1].test >>),
                            KwList(<< b[1].entry_point >>))
    \/ \E i \in Items : Start(i)
    \/ \E i \in Items : TestCheck(i)
    \/ \E i \in Items : Extract(i)
    \/ \E i \in Items : Validate(i)

ValidSpec == Init /\ [][ValidNext]_vars

(***************************************************************************)
(* The exported extractor called by itself: on a completion, and then on   *)
(* what it returned.  The completions are the texts of up to MaxParts      *)
(* parts: an answer block, a python code block, an answer block in capital *)
(* letters around a code block, single tags, single fences, plain text     *)
(* between blanks, and a newline.                                          *)
(***************************************************************************)
MaxParts == 3

CompletionParts ==
    { "<answer>b</answer>",
      FencePython \o "\nc" \o NlFence,
      "<ANSWER> " \o FencePython \o " \nd" \o NlFence \o " </Answer>",
      "<answer>", "</answer>", FencePython \o "\n", NlFence, " a ", "\n" }

RECURSIVE Concat(_)
Concat(parts) == IF parts = <<>> THEN "" ELSE Head(parts) \o Concat(Tail(parts))

CompletionTexts ==
    {Concat(parts) : parts \in UNION {[1..k -> CompletionParts] : k \in 1..MaxParts}}

ExtractFrame == << pool, argLens, tests, entry_points, item, proc, hist, finishOrder,
                   evaluators, newResult, self, wrapIn, wrapOut,
                    DEFAULT_EVALUATOR, callers >>

\* extract_code_from_completion(completion) from Python
extract_code_call(completion) ==
    /\ callState = "idle"
    /\ callState' = "returned"
    /\ api' = "extract_code_from_completion"
    /\ completions' = << completion >>
    /\ result' = << extract_code_from_completion(completion) >>
    /\ UNCHANGED ExtractFrame

\* the same call on the text the first call returned
extract_code_again ==
    /\ callState = "returned"
    /\ api = "extract_code_from_completion"
    /\ Len(result) = 1
    /\ result' = Append(result, extract_code_from_completion(result[1]))
    /\ UNCHANGED << ExtractFrame, callState, api, completions >>

ExtractNext ==
    \/ \E completion \in CompletionTexts : extract_code_call(completion)
    \/ extract_code_again

ExtractSpec == Boot /\ [][ExtractNext]_vars

(***************************************************************************)
(* The format scoring of an evaluator, on batches of up to MaxBatch        *)
(* completions: empty, well formed, answer before think in capital         *)
(* letters and over two lines, one block only, the closing tag before the  *)
(* opening tag, the two blocks interleaved, empty blocks, a closing tag    *)
(* with a blank in it.                                                     *)
(***************************************************************************)
FormatTexts ==
    { "",
      "<think>a</think><answer>b</answer>",
      "<answer>b</answer>\n<THINK>a\n</Think>",
      "<think>a</think>",
      "<answer>b</answer>",
      "</think><think><answer>b</answer>",
      "<think><answer></think></answer>",
      "<think></think><answer></answer>",
      "<think>a</think><answer>b</ answer>" }

\* PyRewardEvaluator::format_reward
format_reward(evaluator, cs) ==
    /\ callState = "idle"
    /\ evaluator \in 1..Len(evaluators)
    /\ self' = evaluator
    /\ api' = "format_reward"
    /\ callState' = "returned"
    /\ completions' = cs
    /\ result' = evaluate_response_format(cs)
    /\ UNCHANGED << pool, argLens, tests, entry_points, item, proc, hist, finishOrder,
                    evaluators, newResult, wrapIn, wrapOut,
                    DEFAULT_EVALUATOR, callers >>

FormatNext ==
    \E cs \in SeqsUpTo(FormatTexts, MaxBatch) :
        \E evaluator \in 1..Len(evaluators) : format_reward(evaluator, cs)

FormatSpec == Init /\ [][FormatNext]_vars

(***************************************************************************)
(* bindings.rs: the module-level format_reward and execution_reward, which *)
(* use DEFAULT_EVALUATOR, a once_cell::sync::Lazy.  Each Python thread     *)
(* makes one call; execution_reward dereferences the cell with the GIL     *)
(* released, so calls may meet at the cell.  The first thread to arrive    *)
(* runs the closure, a thread that arrives meanwhile waits for it.  The    *)
(* format calls score one completion or none, the execution calls an empty *)
(* batch.  Evaluators are constructed from Python alongside.               *)
(***************************************************************************)
\* EvaluatorConfig::default()
EvaluatorConfig_default == DefaultConfig(32)

ModuleFrame == << callState, api, argLens, completions, tests, entry_points,
                 item, proc, hist, finishOrder, result, newResult, self,
                 wrapIn, wrapOut >>

ModuleFunctions == {"format_reward", "execution_reward"}

\* thread t calls a module-level function; its completions are extracted
module_call(t, fn, cs) ==
    /\ callers[t].pc = "idle"
    /\ fn = "execution_reward" => cs = <<>>
    /\ callers' = [callers EXCEPT ![t] = [pc |-> "deref", fn |-> fn,
                                          completions |-> cs, result |-> <<>>]]
    /\ UNCHANGED << ModuleFrame, pool, evaluators, DEFAULT_EVALUATOR >>

\* a variant of LazyForce that tests the cell and then fills it, with
\* nothing to keep a second thread from doing the same meanwhile
LazyForceUnsynchronized(t) ==
    /\ callers[t].pc = "deref"
    /\ IF DEFAULT_EVALUATOR.state = "ready"
       THEN /\ callers' = [callers EXCEPT ![t].pc = "use"]
            /\ UNCHANGED DEFAULT_EVALUATOR
       ELSE /\ callers' = [callers EXCEPT ![t].pc = "init"]
            /\ DEFAULT_EVALUATOR' = [DEFAULT_EVALUATOR EXCEPT !.state = "running"]
    /\ UNCHANGED << ModuleFrame, pool, evaluators >>

\* the dereference of DEFAULT_EVALUATOR: a filled cell is used as it is, an
\* empty one is taken by this thread to fill, and while another thread
\* fills it this thread waits
LazyForce(t) ==
    /\ callers[t].pc = "deref"
    /\ DEFAULT_EVALUATOR.state # "running"
    /\ IF DEFAULT_EVALUATOR.state = "ready"
       THEN /\ callers' = [callers EXCEPT ![t].pc = "use"]
            /\ UNCHANGED DEFAULT_EVALUATOR
       ELSE /\ callers' = [callers EXCEPT ![t].pc = "init"]
            /\ DEFAULT_EVALUATOR' = [DEFAULT_EVALUATOR EXCEPT !.state = "running"]
    /\ UNCHANGED << ModuleFrame, pool, evaluators >>

\* the closure of the cell: RewardEvaluator::new(EvaluatorConfig::default()),
\* whose config passes validate, so that expect() does not panic
LazyInit(t) ==
    /\ callers[t].pc = "init"
    /\ validate(EvaluatorConfig_default) = "ok"
    /\ pool' = build_global(pool, EvaluatorConfig_default.num_threads)
    /\ evaluators' = Append(evaluators, EvaluatorConfig_default)
    /\ DEFAULT_EVALUATOR' = LazyReady(DEFAULT_EVALUATOR.inits + 1, EvaluatorConfig_default)
    /\ callers' = [callers EXCEPT ![t].pc = "use"]
    /\ UNCHANGED ModuleFrame

\* the call evaluates with the default evaluator and returns
ModuleReturn(t) ==
    /\ callers[t].pc = "use"
    /\ IF callers[t].fn = "format_reward"
       THEN /\ callers' = [callers EXCEPT
                              ![t].pc = "done",
                              ![t].result = evaluate_response_format(callers[t].completions)]
            /\ UNCHANGED pool
       ELSE /\ callers' = [callers EXCEPT ![t].pc = "done", ![t].result = <<>>]
            /\ pool' = PoolInUse(pool)
    /\ UNCHANGED << ModuleFrame, evaluators, DEFAULT_EVALUATOR >>

DefaultNext ==
    \/ \E t \in Callers : \E fn \in ModuleFunctions :
         \E cs \in SeqsUpTo({"<think>a</think><answer>b</answer>"}, 1) :
           module_call(t, fn, cs)
    \/ \E t \in Callers : LazyForce(t)
    \/ \E t \in Callers : LazyInit(t)
    \/ \E t \in Callers : ModuleReturn(t)
    \/ \E n \in 1..MaxThreads : RewardEvaluator_new(DefaultConfig(n))

DefaultSpec == Boot /\ [][DefaultNext]_vars

(***************************************************************************)
(* The sandbox runner called by itself on a chatty child, with the pipe of *)
(* the child's stdout: the pipe holds PipeCapacity bytes, a write to a     *)
(* full pipe blocks, and the child writes one byte more than the pipe      *)
(* holds before it exits.  The reader thread takes what is in the pipe     *)
(* whenever there is something.  The threads of the runner, the reader and *)
(* the child keep running; the deadline of wait_timeout may elapse at any  *)
(* time or never.                                                          *)
(***************************************************************************)
PipeCapacity == 2

\* bytes the chatty child writes
ChatLength == PipeCapacity + 1

\* write(1, ..) of one byte: returns once the pipe has room for it
ChildWritePipe(i) ==
    /\ proc[i].child = "running"
    /\ proc[i].writes < ChatLength
    /\ Len(proc[i].out) < PipeCapacity
    /\ proc' = [proc EXCEPT ![i].out = @ \o "x", ![i].writes = @ + 1]
    /\ UNCHANGED << ChildFrame, hist >>

\* the chatty child has written everything and exits
ChatExit(i) ==
    /\ proc[i].writes = ChatLength
    /\ ChildExit(i, 0)

\* a read of the reader thread's read_to_end returns the bytes in the pipe
ReaderRead(i) ==
    /\ item[i].reader = "reading"
    /\ proc[i].out # ""
    /\ item' = [item EXCEPT ![i].stdout_bytes = IF InRun(i) THEN @ \o proc[i].out ELSE ""]
    /\ proc' = [proc EXCEPT ![i].out = ""]
    /\ UNCHANGED << BatchFrame, hist, finishOrder >>

PipeNext ==
    \/ \E code \in DirectPrograms : run_sandboxed_tests_call(code)
    \/ \E i \in Items : SbEmptyCheck(i)
    \/ \E i \in Items : SbTempfile(i)
    \/ \E i \in Items : SbWrite(i)
    \/ \E i \in Items : SbSpawn(i)
    \/ \E i \in Items : SbStartReader(i)
    \/ \E i \in Items : SbWaitExited(i)
    \/ \E i \in Items : SbWaitTimeout(i)
    \/ \E i \in Items : SbKill(i)
    \/ \E i \in Items : SbReap(i)
    \/ \E i \in Items : SbJoin(i)
    \/ \E i \in Items : ReaderRead(i)
    \/ \E i \in Items : ReaderEOF(i)
    \/ \E i \in Items : ChildWritePipe(i)
    \/ \E i \in Items : ChatExit(i)
    \/ RunReturn

\* a step of the runner's thread other than the deadline of wait_timeout
RunnerProgress ==
    \/ \E i \in Items :
          \/ SbEmptyCheck(i) \/ SbTempfile(i) \/ SbWrite(i) \/ SbSpawn(i)
          \/ SbStartReader(i) \/ SbWaitExited(i) \/ SbKill(i) \/ SbReap(i)
          \/ SbJoin(i)
    \/ RunReturn

\* a step of the reader thread, with the pipe
PipeReaderStep == \E i \in Items : ReaderRead(i) \/ ReaderEOF(i)

\* a step of the chatty child
ChatStep == \E i \in Items : ChildWritePipe(i) \/ ChatExit(i)

FairPipeSpec ==
    /\ Init
    /\ [][PipeNext]_vars
    /\ WF_vars(RunnerProgress)
    /\ WF_vars(PipeReaderStep)
    /\ WF_vars(ChatStep)

(***************************************************************************)
(* reward_evaluator.rs: the sequential evaluate_execution_batch, an        *)
(* iterator over the zipped slices that evaluates one item after the       *)
(* other.  outcomes[k] is what the sandbox runner returns for item k.      *)
(***************************************************************************)
evaluate_single(completion, test, entry_point, outcome) ==
    IF TestMissing(test) THEN 0
    ELSE LET code == extract_code_from_completion(completion)
         IN  IF CodeMissing(code) THEN 0
             ELSE IF ~EntryPointValid(TypingPrelude \o code, entry_point) THEN 0
             ELSE RewardOf(outcome)

RECURSIVE SequentialRewards(_, _, _, _)
SequentialRewards(cs, ts, es, outcomes) ==
    IF cs = <<>> \/ ts = <<>> \/ es = <<>> THEN <<>>
    ELSE << evaluate_single(Head(cs), Head(ts), Head(es), Head(outcomes)) >>
             \o SequentialRewards(Tail(cs), Tail(ts), Tail(es), Tail(outcomes))

(***************************************************************************)
(* Properties.                                                             *)
(***************************************************************************)
\* the batch call has returned its vector
BatchReturned == api = "execution_reward" /\ callState = "returned"

\* the arguments of the batch call agree in length (an argument that is no
\* list is replaced by a list of the right length)
ArgLensAgree ==
    /\ api = "execution_reward"
    /\ argLens[2] \in {-1, argLens[1]}
    /\ argLens[3] \in {-1, argLens[1]}

\* the inputs of items i and j are the same
SameInputs(i, j) ==
    /\ completions[i] = completions[j]
    /\ tests[i] = tests[j]
    /\ entry_points[i] = entry_points[j]

\* C1: a batch call whose arguments agree in length never fails, and what it
\* returns is one reward per completion, each 0 or 1, whatever the children
\* did and whatever the sandbox runner returned.
C1_BatchRewardsBinary ==
    /\ ArgLensAgree => callState \in {"running", "returned"}
    /\ BatchReturned =>
          /\ Len(result) = argLens[1]
          /\ Len(result) = Len(completions)
          /\ \A k \in 1..Len(result) : result[k] \in {0, 1}

\* a batch of two has returned, the first item passed, the second timed out
C1_Witness ==
    /\ BatchReturned
    /\ result = <<1, 0>>
    /\ hist[2].timedOut

\* C2 (as the spec states it, one direction): an item is rewarded 1 only if
\* the harness ran every assertion embedded in the item's test and each of
\* them passed.
C2_RewardOnlyIfAssertionsPassed ==
    \A i \in Items :
        (api = "execution_reward" /\ item[i].reward = 1) =>
            /\ hist[i].executed = EmbeddedAsserts(SplitLines(tests[i]))
            /\ hist[i].passed = hist[i].executed

\* C3 (amended): the returned vector is in input order and equals what the
\* sequential evaluator computes from the same inputs and the same outcome
\* of each item's own sandbox run, for every pool size and interleaving.
C3_ParallelEqualsSequential ==
    BatchReturned =>
        result = SequentialRewards(completions, tests, entry_points,
                                   [k \in Items |-> item[k].res])

\* two pool threads, the second item finished first, the rewards differ
C3_Witness ==
    /\ BatchReturned
    /\ pool = 2
    /\ finishOrder = <<2, 1>>
    /\ result = <<0, 1>>

\* C3 (as the spec states it): the reward of an item is determined by the
\* item's inputs alone, so items with the same inputs get the same reward.
C3_RewardDeterminedByInputs ==
    BatchReturned =>
        \A i, j \in Items : SameInputs(i, j) => result[i] = result[j]

\* C4 (as the spec states it): every call of the sandbox runner eventually
\* returns, whatever the child and its descendants do.
C4_RunEventuallyReturns == (callState = "running") ~> (callState = "returned")

\* C5: once the deadline has elapsed with the child running, the runner goes
\* on to kill and to wait, and what it returns is the success value
\* (false, 0, 0), with the kill sent and the child reaped, whatever the
\* child had written.
C5_TimeoutGivesZeroTriple ==
    \A i \in Items :
        hist[i].timedOut =>
            IF InRun(i)
            THEN item[i].pc \in {"sb_kill", "sb_reap"}
            ELSE /\ item[i].res = OkResult(FALSE, 0, 0)
                 /\ hist[i].killSent
                 /\ proc[i].child = "reaped"

\* a timed-out run has returned and the marker the child wrote is in the pipe
C5_Witness ==
    \E i \in Items :
        /\ hist[i].timedOut
        /\ item[i].pc = "score"
        /\ proc[i].out = "TESTS_PASSED:1/1\n"

\* C6 (as the spec states it): after a run that timed out has returned, no
\* process that the run started is alive.
C6_NoProcessLeftAfterTimeout ==
    \A i \in Items :
        (hist[i].timedOut /\ ~InRun(i)) =>
            /\ proc[i].child = "reaped"
            /\ ~proc[i].desc

\* C7: in every triple the runner returns, all_passed is true exactly when
\* the child exited with code 0 and passed = total and total > 0; so a total
\* of 0 and an exit by signal (-1) both give false.
C7_AllPassedExact ==
    \A i \in Items :
        item[i].res.kind = "ok" =>
            /\ item[i].res.all_passed <=>
                  /\ hist[i].exitCode = 0
                  /\ item[i].res.tests_passed = item[i].res.tests_total
                  /\ item[i].res.tests_total > 0
            /\ item[i].res.tests_total = 0 => ~item[i].res.all_passed
            /\ hist[i].exitCode = -1 => ~item[i].res.all_passed

\* a child ended by a signal had written a marker of 1 out of 1
C7_Witness ==
    \E i \in Items :
        /\ item[i].res = OkResult(FALSE, 1, 1)
        /\ hist[i].exitCode = -1

\* the order of the steps of evaluate_single_execution
StepOrder == << "test_check", "extract", "validate", "wrap", "sandbox" >>

IsPrefix(p, q) == Len(p) <= Len(q) /\ SubSeq(q, 1, Len(p)) = p

\* the conditions under which an item is to reach the sandbox
DueConditions(completion, test, entry_point) ==
    LET code == extract_code_from_completion(completion)
    IN  /\ test \notin {"", "null"}
        /\ Trim(code) # ""
        /\ \/ entry_point \in {"", "null"}
           \/ EntryPointValid(TypingPrelude \o code, entry_point)

\* the conditions, tabulated over the texts an item of a batch can hold
DueTable ==
    [ c \in {t.completion : t \in Catalog},
      t \in {t.test : t \in Catalog} \cup {""},
      e \in {t.entry_point : t \in Catalog} \cup {""}
        |-> DueConditions(c, t, e) ]

SandboxDue(i) == DueTable[completions[i], tests[i], entry_points[i]]

\* C8 (amended): the steps of an item run in the fixed order; the sandbox
\* runner is called for the item exactly when the conditions hold; a temp
\* file or a child exists only for such an item, and such an item is without
\* a child only when the temp file, the write or the spawn failed; every
\* other item gets reward 0.
C8_SandboxOnlyWhenDue ==
    api = "execution_reward" =>
        \A i \in Items :
            /\ IsPrefix(hist[i].trail, StepOrder)
            /\ (hist[i].tmpCreated \/ hist[i].spawned) => SandboxDue(i)
            /\ item[i].pc = "done" =>
                  /\ (hist[i].trail = StepOrder) <=> SandboxDue(i)
                  /\ ~SandboxDue(i) => item[i].reward = 0
                  /\ (SandboxDue(i) /\ ~hist[i].spawned) =>
                        item[i].res.kind \in
                            {"tempfile_error", "write_error", "spawn_error"}

\* an item whose entry point is "null" is done and had a child
C8_Witness ==
    /\ api = "execution_reward"
    /\ \E i \in Items :
          /\ entry_points[i] = "null"
          /\ item[i].pc = "done"
          /\ hist[i].spawned

\* C8 (as the spec states it): a child is launched for an item if and only
\* if the conditions hold.
C8_ChildIffDue ==
    api = "execution_reward" =>
        \A i \in Items : item[i].pc = "done" => (hist[i].spawned <=> SandboxDue(i))

\* C9: a hard error of the runner for an item gives that item reward 0, the
\* batch call goes on and returns, and every other item has the reward of
\* its own evaluation.
C9_HardErrorCollapsed ==
    api = "execution_reward" =>
        /\ (\E i \in Items : item[i].res.kind \in HardErrors) =>
               callState \in {"running", "returned"}
        /\ \A i \in Items :
              (item[i].res.kind \in HardErrors /\ item[i].pc = "done") =>
                  item[i].reward = 0
        /\ BatchReturned =>
              \A i \in Items :
                  item[i].res.kind \in HardErrors =>
                      /\ result[i] = 0
                      /\ \A j \in Items \ {i} :
                            result[j] = evaluate_single(
                                            completions[j], tests[j],
                                            entry_points[j], item[j].res)

\* the first item of two met a hard error, the second passed
C9_Witness ==
    /\ BatchReturned
    /\ Len(result) = 2
    /\ item[1].res.kind \in HardErrors
    /\ result = <<0, 1>>

\* a list argument of the batch call differs in length from the completions
ArgLensDiffer ==
    /\ api = "execution_reward"
    /\ \/ argLens[2] \notin {-1, argLens[1]}
       \/ argLens[3] \notin {-1, argLens[1]}

\* C10: a batch call with a list argument of the wrong length fails with the
\* length-mismatch error, returns no vector, and no item is evaluated and no
\* child launched.
C10_LengthMismatchRejected ==
    ArgLensDiffer =>
        /\ callState = "value_error"
        /\ result = <<>>
        /\ Items = {}

\* two completions and a list of one test
C10_Witness ==
    /\ ArgLensDiffer
    /\ argLens[1] = 2
    /\ argLens[2] = 1
    /\ callState = "value_error"

\* the config is in the ranges validate asks for
InRange(config) ==
    /\ config.timeout_seconds >= 1
    /\ \/ config.memory_limit_mb[1] >= 64
       \/ \E k \in 2..Len(config.memory_limit_mb) : config.memory_limit_mb[k] # 0
    /\ config.cpu_time_limit >= 1

\* C11: the construction of an evaluator fails with the invalid-configuration
\* error exactly when the wall timeout is below 1, the memory limit below 64
\* or the CPU time below 1; a failed construction yields no evaluator; a
\* config in range whose CPU time exceeds the wall timeout is accepted, with
\* a warning.
C11_InvalidConfigExact ==
    /\ newResult.result # "none" =>
          /\ newResult.result = "invalid_config" <=> ~InRange(newResult.config)
          /\ newResult.result = "ok" <=> InRange(newResult.config)
          /\ newResult.result = "ok" =>
                /\ evaluators # <<>>
                /\ evaluators[Len(evaluators)] = newResult.config
                /\ newResult.warned <=>
                      newResult.config.cpu_time_limit > newResult.config.timeout_seconds
    /\ \A k \in 1..Len(evaluators) : InRange(evaluators[k])

\* a config with CPU time 2 and wall timeout 1 gave an evaluator and a warning
C11_Witness ==
    /\ newResult.result = "ok"
    /\ newResult.config.cpu_time_limit = 2
    /\ newResult.config.timeout_seconds = 1
    /\ newResult.warned
    /\ evaluators # <<>>

\* C12 (as the spec states it): a construction with a worker count of 0
\* fails with the invalid-configuration error, and no evaluator has a worker
\* count of 0.
C12_ZeroWorkersRejected ==
    /\ (newResult.result # "none" /\ newResult.config.num_threads = 0) =>
          newResult.result = "invalid_config"
    /\ \A k \in 1..Len(evaluators) : evaluators[k].num_threads # 0

\* C13: once the global pool is built its size never changes, whatever is
\* constructed or called afterwards; a construction that finds the pool
\* built still yields its evaluator, and leaves the pool as it is.
C13_PoolConfiguredOnce ==
    [][ /\ pool # 0 => pool' = pool
        /\ (pool # 0 /\ evaluators' # evaluators) =>
              /\ newResult'.result = "ok"
              /\ evaluators' = Append(evaluators, newResult'.config)
              /\ pool' = pool ]_vars

\* the pool has the 2 threads of the first evaluator; a second evaluator was
\* constructed with 1 thread
C13_Witness ==
    /\ pool = 2
    /\ Len(evaluators) = 2
    /\ evaluators[1].num_threads = 2
    /\ evaluators[2].num_threads = 1
    /\ newResult = NewOk(evaluators[2])

\* the children of item runs that are in progress
RunningChildren == {i \in Items : proc[i].child = "running" /\ InRun(i)}

\* C14 (as the spec states it): during a batch call on an evaluator
\* constructed with worker count w, at most w children launched for the
\* batch run at the same time, whichever evaluator built the global pool.
C14_ChildrenWithinWorkerCount ==
    (api = "execution_reward" /\ self # 0) =>
        Cardinality(RunningChildren) <= evaluators[self].num_threads

\* the line is an assert line: optional leading whitespace, assert,
\* whitespace, at least one more character
IsAssertLine(line) == AssertAt(line, SkipWs(line, 1))

\* line k lies inside a check function as Python reads the text: it is not
\* blank and follows a def check line, with nothing in between but blank
\* lines and lines indented deeper than that def line
InCheckBody(ls, k) ==
    /\ Trim(ls[k]) # ""
    /\ \E d \in 1..(k - 1) :
          /\ IsCheckDef(ls[d])
          /\ \A j \in (d + 1)..k :
                Trim(ls[j]) = "" \/ Len(IndentOf(ls[j])) > Len(IndentOf(ls[d]))

\* the assert lines inside a check function
CheckAsserts(ls) == {k \in 1..Len(ls) : IsAssertLine(ls[k]) /\ InCheckBody(ls, k)}

\* the lines from k on, each assert line inside a check function replaced by
\* its guarded block, the blank lines left out, every other line as it is
RECURSIVE Converted(_, _)
Converted(ls, k) ==
    IF k > Len(ls) THEN <<>>
    ELSE (IF k \in CheckAsserts(ls) THEN GuardedBlock(ls[k])
          ELSE IF Trim(ls[k]) = "" THEN <<>>
          ELSE << ls[k] >>)
             \o Converted(ls, k + 1)

\* xs is what is left of ys when some elements of ys are taken away
RECURSIVE IsSubsequence(_, _)
IsSubsequence(xs, ys) ==
    IF xs = <<>> THEN TRUE
    ELSE IF ys = <<>> THEN FALSE
    ELSE IF Head(xs) = Head(ys) THEN IsSubsequence(Tail(xs), Tail(ys))
    ELSE IsSubsequence(xs, Tail(ys))

\* C15 (as the spec states it): in what the wrapper returns, every assert
\* line inside the check function, also one after a blank line of the body,
\* stands as its guarded block, and every line outside the function, also an
\* assert line at the indent of the def line, stands as it was, all in the
\* original order.
C15_AssertsGuardedRestVerbatim ==
    wrapOut # <<>> =>
        IsSubsequence(Converted(SplitLines(wrapIn.test_code), 1),
                      SplitLines(wrapOut[1]))

\* the guarded blocks among the lines
RECURSIVE GuardedBlocks(_)
GuardedBlocks(lines) ==
    IF lines = <<>> THEN 0
    ELSE (IF Trim(Head(lines)) = "_results.append(True)" THEN 1 ELSE 0)
             + GuardedBlocks(Tail(lines))

\* the text has exactly one def check line
OneCheckDef(ls) == Cardinality({k \in 1..Len(ls) : IsCheckDef(ls[k])}) = 1

\* C16 (as the spec states it): for a harness whose check function holds k
\* assertions, the wrapped harness holds exactly k guarded blocks, and all k
\* stand before the emitted return _results, so that check runs and counts
\* all k.
C16_AllAssertionsCounted ==
    (wrapOut # <<>> /\ OneCheckDef(SplitLines(wrapIn.test_code))) =>
        LET k   == Cardinality(CheckAsserts(SplitLines(wrapIn.test_code)))
            out == SplitLines(wrapOut[1])
        IN  /\ GuardedBlocks(out) = k
            /\ GuardedBeforeReturn(out) = k

\* C17 (as the spec states it): a text without an assert line comes back
\* unchanged, also when "assert " stands in the middle of a line.
C17_NoAssertLineUnchanged ==
    (wrapOut # <<>> /\ \A k \in 1..Len(SplitLines(wrapIn.test_code)) :
                          ~IsAssertLine(SplitLines(wrapIn.test_code)[k])) =>
        wrapOut[1] = wrapIn.test_code

\* C18 (as the spec states it): in what the wrapper returns for its own
\* output, every assert line inside the check function stands directly under
\* a try: line of a shorter indent.
C18_RewrapLeavesNoBareAssert ==
    Len(wrapOut) = 2 =>
        LET out == SplitLines(wrapOut[2])
        IN  \A k \in CheckAsserts(out) :
                /\ k > 1
                /\ Trim(out[k - 1]) = "try:"
                /\ Len(IndentOf(out[k - 1])) < Len(IndentOf(out[k]))

\* C19 (as the spec states it): when a run that spawned a child has
\* returned, by whichever path, the child has exited and has been waited on.
C19_ChildReapedOnReturn ==
    \A i \in Items :
        (hist[i].spawned /\ ~InRun(i)) => proc[i].child = "reaped"

\* the steps of run_sandboxed_tests at which the temp file exists
TempFileSteps ==
    {"sb_write", "sb_spawn", "sb_reader", "sb_wait", "sb_kill", "sb_reap", "sb_join"}

\* C20: the temp file of a run exists only while the run is between its
\* creation and its return; once the run has returned, by whichever path
\* (write, spawn or wait failure, timeout, normal exit), the file is gone.
C20_TempFileRemovedOnReturn ==
    \A i \in Items :
        /\ ~InRun(i) => ~item[i].tmpfile
        /\ item[i].tmpfile => (hist[i].tmpCreated /\ item[i].pc \in TempFileSteps)
        /\ (hist[i].tmpCreated /\ item[i].pc \in TempFileSteps) => item[i].tmpfile

\* in one batch, a run ended by a failed wait and a run ended by the timeout
\* have both returned after creating their temp files
C20_Witness ==
    /\ Len(item) = 2
    /\ \A i \in Items : hist[i].tmpCreated /\ ~InRun(i)
    /\ item[1].res.kind = "wait_error"
    /\ hist[2].timedOut
(***************************************************************************)
(* The triple and the errors of run_sandboxed_tests called by itself.      *)
(***************************************************************************)
\* the direct call has returned a triple
ReturnedTriple ==
    /\ api = "run_sandboxed_tests"
    /\ callState = "returned"
    /\ result.kind = "ok"

\* C21 (as the spec states it): every triple the runner returns has
\* 0 <= passed <= total, whatever the child wrote to stdout.
C21_PassedWithinTotal ==
    ReturnedTriple =>
        /\ 0 <= result.tests_passed
        /\ result.tests_passed <= result.tests_total

\* the two digit strings of the first marker in s, << "", "" >> if none
MarkerDigits(s) ==
    LET hits == {i \in 1..Len(s) : MarkerAt(s, i)}
    IN  IF hits = {} THEN << "", "" >>
        ELSE LET d1 == MinOf(hits) + 13
                 e1 == DigitsEnd(s, d1)
             IN  << SubSeq(s, d1, e1 - 1), SubSeq(s, e1 + 1, DigitsEnd(s, e1 + 1) - 1) >>

\* count n is what the digit string d of a marker shows: its value when d has
\* fewer than 10 digits, and its value or 0 otherwise
ShownBy(n, d) ==
    /\ n = 0 \/ ToDecimal(n) = DropZeros(d)
    /\ Len(DropZeros(d)) < 10 => ToDecimal(n) = DropZeros(d)

\* the run ended the way the absorbed failures end: the child exited with a
\* status other than 0, or stdout held no marker, or held a marker with a
\* number that does not fit 32 bits
AbsorbedFailure ==
    /\ ReturnedTriple
    /\ hist[1].exitCode # NoStatus
    /\ \/ hist[1].exitCode # 0
       \/ MarkerDigits(hist[1].stdout) = << "", "" >>
       \/ Len(DropZeros(MarkerDigits(hist[1].stdout)[1])) > 10
       \/ Len(DropZeros(MarkerDigits(hist[1].stdout)[2])) > 10

\* C22 (as the spec states it): a run that ends by non-zero exit, crash,
\* missing marker or unparseable marker digits returns exactly (false, 0, 0).
C22_FailureGivesZeroTriple ==
    AbsorbedFailure => result = OkResult(FALSE, 0, 0)

\* C22 (amended): such a run returns all_passed = false; the counts are
\* (0, 0) when stdout holds no marker, and otherwise the two numbers of the
\* first marker, each replaced by 0 when it does not fit 32 bits, also when
\* the exit status is not 0.
C22_FailureGivesFalseAndMarkerCounts ==
    AbsorbedFailure =>
        LET digits == MarkerDigits(hist[1].stdout)
        IN  /\ ~result.all_passed
            /\ IF digits = << "", "" >>
               THEN result.tests_passed = 0 /\ result.tests_total = 0
               ELSE /\ ShownBy(result.tests_passed, digits[1])
                    /\ ShownBy(result.tests_total, digits[2])

\* a child that wrote a marker of 1 out of 1 and exited with status 1
C22_Witness ==
    /\ AbsorbedFailure
    /\ hist[1].exitCode = 1
    /\ hist[1].stdout = "TESTS_PASSED:1/1\n"
    /\ result = OkResult(FALSE, 1, 1)

\* C23: the direct call returns an error exactly when the temp file could
\* not be created or written, the launch failed, or the wait on the running
\* child failed; an empty program, a timeout and an exit with any status and
\* any output give a triple; after a temp file or launch error no child
\* was ever started.
C23_ErrorsExact ==
    (api = "run_sandboxed_tests" /\ callState = "returned") =>
        /\ result.kind \in {"ok"} \cup HardErrors
        /\ result.kind = "tempfile_error" =>
               ~hist[1].tmpCreated /\ ~hist[1].spawned /\ proc[1].child = "none"
        /\ result.kind \in {"write_error", "spawn_error"} =>
               hist[1].tmpCreated /\ ~hist[1].spawned /\ proc[1].child = "none"
        /\ result.kind = "wait_error" =>
               hist[1].spawned /\ ~hist[1].timedOut /\ hist[1].exitCode = NoStatus
        /\ (\/ Trim(item[1].full_code) = ""
            \/ hist[1].timedOut
            \/ hist[1].exitCode # NoStatus) => result.kind = "ok"
        /\ result.kind = "ok" =>
               \/ ~hist[1].tmpCreated /\ Trim(item[1].full_code) = ""
               \/ hist[1].spawned /\ (hist[1].timedOut \/ hist[1].exitCode # NoStatus)

\* the launch failed: an error comes back and no child exists
C23_Witness ==
    /\ api = "run_sandboxed_tests"
    /\ callState = "returned"
    /\ result.kind = "spawn_error"
    /\ hist[1].tmpCreated
    /\ proc[1].child = "none"

(***************************************************************************)
(* The entry-point validation of evaluate_single_execution.                *)
(***************************************************************************)
\* p is a literal substring of s
HasLiteral(s, p) == \E k \in 0..(Len(s) - Len(p)) : SubSeq(s, k + 1, k + Len(p)) = p

\* the component of e after its last '.', e itself when it has none
AfterLastDot(e) ==
    LET k == CHOOSE j \in 0..Len(e) :
                 /\ j = 0 \/ CharAt(e, j) = "."
                 /\ \A h \in (j + 1)..Len(e) : CharAt(e, h) # "."
    IN  SubSeq(e, k + 1, Len(e))

\* the validation of item i has run
Validated(i) ==
    /\ hist[i].trail # <<>>
    /\ hist[i].trail[Len(hist[i].trail)] = "validate"

\* texts added in front of or behind a candidate code
AddedTexts == {"", "\n", "def ", "# class Solution", "def add(a): pass\n", "x"}

\* C24: for an entry point that is neither empty nor "null", the validation
\* passes exactly when the code with the prelude contains "def <method>",
\* method being what follows the last '.' of the entry point, and, for an
\* entry point that contains "Solution().", also "class Solution"; code that
\* passes still passes with text added before or after it.
C24_ValidationExact ==
    \A i \in Items :
        (Validated(i) /\ entry_points[i] \notin {"", "null"}) =>
            LET code == item[i].code
                e    == entry_points[i]
                ok   == item[i].pc = "wrap"
            IN  /\ item[i].pc \in {"wrap", "done"}
                /\ code = TypingPrelude \o Trim(completions[i])
                /\ ok <=> /\ HasLiteral(code, "def " \o AfterLastDot(e))
                          /\ HasLiteral(e, "Solution().") => HasLiteral(code, "class Solution")
                /\ ~ok => item[i].reward = 0
                /\ ok => \A extra \in AddedTexts :
                              /\ EntryPointValid(extra \o code, e)
                              /\ EntryPointValid(code \o extra, e)

\* a Solution() method is found in code that defines the class and the method
C24_Witness ==
    \E i \in Items :
        /\ Validated(i)
        /\ entry_points[i] = "Solution().twoSum"
        /\ HasLiteral(item[i].code, "class Solution")
        /\ item[i].pc = "wrap"

(***************************************************************************)
(* The extractor.                                                          *)
(***************************************************************************)
\* the exported extractor has returned
Extracted == api = "extract_code_from_completion" /\ callState = "returned"

\* out is s without its leading and trailing whitespace
IsTrimOf(out, s) ==
    \E a \in 1..(Len(s) + 1) :
        /\ a + Len(out) - 1 <= Len(s)
        /\ SubSeq(s, a, a + Len(out) - 1) = out
        /\ \A k \in 1..(a - 1) : IsWs(CharAt(s, k))
        /\ \A k \in (a + Len(out))..Len(s) : IsWs(CharAt(s, k))
        /\ out # "" => ~IsWs(CharAt(out, 1)) /\ ~IsWs(CharAt(out, Len(out)))

\* the n characters of x from index p on, "" when x ends before
TextAt(x, p, n) == IF p + n - 1 <= Len(x) THEN SubSeq(x, p, p + n - 1) ELSE ""

\* positions of the answer blocks of x: an opening tag at p and a closing tag
\* at q behind it, in any case of the letters
AnswerBlocks(x) ==
    LET low    == Lower(x)
        opens  == {p \in 1..Len(x) : TextAt(low, p, 8) = "<answer>"}
        closes == {q \in 1..Len(x) : TextAt(low, q, 9) = "</answer>"}
    IN  {pq \in opens \X closes : pq[2] >= pq[1] + 8}

\* positions of the python code blocks of x: the fence with "python" at p,
\* whitespace up to a newline at n, and a newline with a fence at q behind it
CodeBlocks(x) ==
    LET opens  == {p \in 1..Len(x) : TextAt(x, p, 9) = FencePython}
        closes == {q \in 1..Len(x) : TextAt(x, q, 4) = NlFence}
    IN  {pq \in opens \X closes :
            \E n \in (pq[1] + 9)..(pq[2] - 1) :
               /\ CharAt(x, n) = "\n"
               /\ \A k \in (pq[1] + 9)..n : IsWs(CharAt(x, k))}

C26_IdempotentOnPlainText ==
    (/\ Extracted
     /\ Len(result) = 2
     /\ AnswerBlocks(completions[1]) = {}
     /\ ~HasLiteral(completions[1], Fence)) => result[2] = result[1]

\* plain text between blanks and newlines: the first call removed them, the
\* second call had nothing to remove
C26_Witness ==
    /\ Extracted
    /\ Len(result) = 2
    /\ completions[1] = "\n a \n"
    /\ result[1] = "a"
    /\ result[2] = "a"

(***************************************************************************)
(* The format scoring.                                                     *)
(***************************************************************************)
\* x holds an opening tag and, somewhere behind it, the closing tag, in any
\* case of the letters
HasPair(x, open, close) ==
    \E p \in 1..Len(x) :
        /\ Lower(TextAt(x, p, Len(open))) = open
        /\ \E q \in (p + Len(open))..Len(x) : Lower(TextAt(x, q, Len(close))) = close

\* C27: format scoring returns one reward per completion, in input order;
\* reward i is 1 exactly when completion i holds <think> with </think>
\* behind it and <answer> with </answer> behind it, in any case of the
\* letters, across newlines and in either order of the two pairs, else 0;
\* it is decided by completion i alone, and an empty completion gets 0.
C27_FormatRewardExact ==
    (api = "format_reward" /\ callState = "returned") =>
        /\ Len(result) = Len(completions)
        /\ \A i \in 1..Len(completions) :
               /\ result[i] \in {0, 1}
               /\ result[i] = 1 <=> /\ HasPair(completions[i], "<think>", "</think>")
                                    /\ HasPair(completions[i], "<answer>", "</answer>")
               /\ completions[i] = "" => result[i] = 0
               /\ \A j \in 1..Len(completions) :
                      completions[j] = completions[i] => result[j] = result[i]

\* the answer block before a think block in capital letters and over two
\* lines scores 1, next to an empty completion that scores 0
C27_Witness ==
    /\ api = "format_reward"
    /\ callState = "returned"
    /\ completions = << "<answer>b</answer>\n<THINK>a\n</Think>", "" >>
    /\ result = << 1, 0 >>

(***************************************************************************)
(* The default evaluator of the module-level functions.                    *)
(***************************************************************************)
\* threads that have dereferenced DEFAULT_EVALUATOR
Forced == {t \in Callers : callers[t].pc \notin {"idle", "deref"}}

\* C28: the default evaluator does not exist before a module-level call
\* dereferences it, whatever evaluators are constructed meanwhile; it is
\* created once, by one thread, also when calls meet at first use; every
\* call evaluates with it; its config is (15, 512, 12, 32).
C28_DefaultEvaluatorOnce ==
    /\ DEFAULT_EVALUATOR.state = "uninit" <=> Forced = {}
    /\ DEFAULT_EVALUATOR.inits <= 1
    /\ Cardinality({t \in Callers : callers[t].pc = "init"}) <= 1
    /\ DEFAULT_EVALUATOR.state = "running" <=> \E t \in Callers : callers[t].pc = "init"
    /\ \A t \in Callers :
           callers[t].pc \in {"use", "done"} =>
               /\ DEFAULT_EVALUATOR.state = "ready"
               /\ DEFAULT_EVALUATOR.inits = 1
    /\ DEFAULT_EVALUATOR.state = "ready" =>
           DEFAULT_EVALUATOR.config = Config(15, U64(512), 12, 32)

\* two calls have met at first use, after an evaluator was constructed from
\* Python: one thread creates the default evaluator, the other waits
C28_Witness ==
    /\ callers[1].pc = "init"
    /\ callers[2].pc = "deref"
    /\ callers[1].fn = "execution_reward"
    /\ callers[2].fn = "execution_reward"
    /\ DEFAULT_EVALUATOR.state = "running"
    /\ Len(evaluators) = 1

(***************************************************************************)
(* The line loop of the test wrapper, read off the text it returns.        *)
(***************************************************************************)
\* the line belongs to the body of a check whose def line has this indent
StartsInside(line, check_indent) ==
    \/ MatchAt(line, check_indent \o " ", 1)
    \/ MatchAt(line, check_indent \o "\t", 1)

\* C29 (as the spec states it): in the text the wrapper's line loop returns,
\* every def line of check is followed at once by its "_results = []" line
\* and later by its "return _results" line and an empty line; the return
\* comes at the first line behind the def that is blank or does not start
\* with check_indent and a space or tab, so every line between the two
\* belongs to the body; and the driver comes behind the last return.
C29_ReturnWhenLeavingCheck ==
    (wrapOut # <<>> /\ AssertPos(wrapIn.test_code) # 0) =>
        LET out    == SplitLines(wrapOut[1])
            driver == Len(out) - Len(HarnessDriver(wrapIn.entry_point)) + 1
        IN  \A a \in 1..Len(out) :
                IsCheckDef(out[a]) =>
                    /\ a + 1 < driver
                    /\ out[a + 1] = IndentOf(out[a]) \o "    _results = []"
                    /\ \E r \in (a + 2)..(driver - 2) :
                           /\ out[r] = IndentOf(out[a]) \o "    return _results"
                           /\ out[r + 1] = ""
                           /\ \A k \in (a + 2)..(r - 1) :
                                  StartsInside(out[k], IndentOf(out[a]))

(***************************************************************************)
(* The stdout reader and the chatty child.                                 *)
(***************************************************************************)
\* the launched child is running
ChattyRunning == item # <<>> /\ proc[1].child = "running"

\* the launched child has exited, by itself or killed at the deadline
ChattyEnded == item # <<>> /\ proc[1].child \in {"zombie", "reaped"}

\* C30: the reader drains the pipe while the runner waits, so a child that
\* writes more than the pipe holds does not stay blocked on a full pipe:
\* once launched it comes to its end, by exiting after its last write if
\* the deadline does not stop it before.
C30_ChattyChildNotBlocked == ChattyRunning ~> ChattyEnded

\* the runner waits, the reader has taken a full pipe, and the child has
\* written its last byte, more than the pipe holds, and is about to exit
C30_Witness ==
    /\ item # <<>>
    /\ item[1].pc = "sb_wait"
    /\ proc[1].child = "running"
    /\ proc[1].writes = ChatLength
    /\ Len(item[1].stdout_bytes) >= PipeCapacity

\* C33: a construction that fails validation leaves the global pool as it
\* was and yields no evaluator; while every construction so far has failed
\* the pool is still unbuilt, and a valid construction that names a thread
\* count then builds it with that count (the host's default for 0).
C33_FailedConstructionLeavesPool ==
    [][ /\ (newResult' # newResult /\ newResult'.result = "invalid_config") =>
              /\ pool' = pool
              /\ evaluators' = evaluators
        /\ (pool = 0 /\ evaluators = <<>> /\ evaluators' # evaluators
                     /\ newResult'.config.num_threads # NumThreadsNone) =>
              pool' = IF newResult'.config.num_threads = 0
                      THEN DefaultThreads
                      ELSE newResult'.config.num_threads ]_vars

\* a construction with a thread count and a memory limit below 64 has
\* failed, before any evaluator exists: no pool is built
C33_Witness ==
    /\ newResult.result = "invalid_config"
    /\ newResult.failed = "memory_limit_mb"
    /\ newResult.config.num_threads = 2
    /\ evaluators = <<>>
    /\ pool = 0

\* C32 (as the spec states it): when a sandbox run has returned its triple,
\* on the normal-exit path or on the timeout path, the stdout reader thread
\* it started has ended: no run that is over has a reader still reading the
\* pipe of its child.
C32_ReaderEndedOnReturn ==
    \A i \in Items :
        (~InRun(i) /\ item[i].res.kind = "ok") => item[i].reader # "reading"

\* C31 (as the spec states it): for every memory limit the constructor
\* accepts, the multiplication by 1_000_000 does not fail, and the
\* address-space limit of the child launched for an item is exactly the
\* product of the evaluator's memory_limit_mb and 1_000_000.
C31_LimitIsExactProduct ==
    \A i \in Items :
        /\ item[i].pc # "panicked"
        /\ hist[i].spawned =>
              proc[i].rlimit_as \o << 0, 0 >> =
                  FullProduct(evaluators[self].memory_limit_mb, Million)

====
